---- MODULE Spec2Model ----
(***************************************************************************)
(* Model of the LinkedIn job scraper: the browser session controller       *)
(* (scraping/webdriver_manager.py), the search driver                      *)
(* (scraping/linkedin_scraper.py) and the markup extractor                 *)
(* (scraping/html_parser.py).                                              *)
(*                                                                         *)
(* Text is modelled as a sequence of tokens (each token a string), the     *)
(* empty text being <<>>; substring tests are made at token granularity.   *)
(* The browser is the environment: every call on it returns one of the     *)
(* outcomes Selenium can produce, chosen nondeterministically.             *)
(***************************************************************************)
EXTENDS Integers, Sequences, FiniteSets, TLC

(* ------------------------------ bounds -------------------------------- *)
\* largest max_pages argument a search is started with
MaxPages == 3
\* largest number of listing nodes served by the site during one run
MaxCards == 3
\* largest max_retries argument of a direct navigate_to_url_with_retry call
MaxRetryArg == 1
\* request count from which no further request is counted by a sequence of
\* counted calls: the counts 21, 51 and 100 are passed
MaxRequests == 101
\* the same, among direct calls of every operation
MaxCalls == 2
\* largest one-digit N of a posted date "N days ago"
MaxAgo == 3
\* the most elements of a document searched for cards
MaxNodes == 24
\* the most searches the user of the window starts
MaxRuns == 2
\* the most calls of search_jobs on one scraper
MaxSearches == 2
\* the most calls made on the record store, and the seconds that pass meanwhile
MaxStoreCalls == 4
MaxClock == 1
\* longest time since the last request a call may find, in steps of two seconds
MaxIdle == 3

(* ------------------------- program constants -------------------------- *)
MAX_RETRY_ATTEMPTS == 3
\* seconds
DEFAULT_REQUEST_DELAY == 3
MAX_REQUEST_DELAY == 5
max_requests_per_session == 100
max_empty_pages == 2
FALLBACK_ID_MODULUS == 1000000

None == 0
\* a started browser (webdriver.Chrome)
Browser == 1
base_url == <<"https://www.linkedin.com">>

(* ------------------------------ text ---------------------------------- *)
Contains(s, tok) == \E i \in 1..Len(s) : s[i] = tok

\* index of the last occurrence of tok in s (0 when there is none)
LastIndex(s, tok) ==
    IF Contains(s, tok)
    THEN CHOOSE i \in 1..Len(s) : s[i] = tok /\ \A j \in (i+1)..Len(s) : s[j] # tok
    ELSE 0

\* index of the first occurrence of tok in s (Len(s)+1 when there is none)
FirstIndex(s, tok) ==
    IF Contains(s, tok)
    THEN CHOOSE i \in 1..Len(s) : s[i] = tok /\ \A j \in 1..(i-1) : s[j] # tok
    ELSE Len(s) + 1

\* s.split(tok)[-1]
AfterLast(s, tok) == SubSeq(s, LastIndex(s, tok) + 1, Len(s))

\* s.split(tok)[0]
BeforeFirst(s, tok) == SubSeq(s, 1, FirstIndex(s, tok) - 1)

IsSpace(tok) == tok \in {" ", "\n", "\t"}

\* str.lower() on one token
LowerTok(tok) ==
    CASE tok = "Engineer" -> "engineer"
      [] tok = "Acme" -> "acme"
      [] tok = "Remote" -> "remote"
      [] tok = "Access Denied" -> "access denied"
      [] tok = "No matching jobs found" -> "no matching jobs found"
      [] OTHER -> tok

Lower(s) == [i \in 1..Len(s) |-> LowerTok(s[i])]

RECURSIVE Strip(_)
\* str.strip(): leading and trailing whitespace removed
Strip(s) ==
    IF s = <<>> THEN s
    ELSE IF IsSpace(Head(s)) THEN Strip(Tail(s))
    ELSE IF IsSpace(s[Len(s)]) THEN Strip(SubSeq(s, 1, Len(s) - 1))
    ELSE s

RECURSIVE CollapseSpaces(_)
\* re.sub(r'\s+', ' ', s): every run of whitespace becomes one space
CollapseSpaces(s) ==
    IF s = <<>> THEN s
    ELSE IF IsSpace(Head(s))
         THEN IF Tail(s) # <<>> /\ IsSpace(Head(Tail(s)))
              THEN CollapseSpaces(Tail(s))
              ELSE <<" ">> \o CollapseSpaces(Tail(s))
         ELSE <<Head(s)>> \o CollapseSpaces(Tail(s))

_clean_text(text) == IF text = <<>> THEN <<>> ELSE CollapseSpaces(Strip(text))

RECURSIVE PyHash(_)
\* hash(): a fixed function of the text within one process, of either sign
PyHash(s) ==
    IF s = <<>> THEN 0
    ELSE ((31 * PyHash(Tail(s)) + 7 * Len(Head(s)) + 3) % 2001) - 1000

(* --------------------------- markup extractor ------------------------- *)
\* A listing node (job card): the data-entity-urn attribute, the href of its
\* link (<<>> when it has none), the raw text the title, company and location
\* selectors pick up, and the first characters of its markup.
Card(urn, href, title, company, location, head) ==
    [urn |-> urn, href |-> href, title |-> title, company |-> company,
     location |-> location, head |-> head]

\* an entity urn and a relative link
CardA == Card(<<"urn:li:", "job:", "1">>, <<"/jobs/view/", "1">>,
              <<"Engineer">>, <<"Acme">>, <<"Remote">>, <<"<div a>">>)
\* the link of CardA under an entity urn with nothing after "job:"
CardC == Card(<<"urn:li:", "job:">>, <<"/jobs/view/", "1">>,
              <<"Engineer">>, <<"Acme">>, <<>>, <<"<div c>">>)
\* no urn; an absolute link to the job of CardA, with a query string
CardD == Card(<<>>,
              <<"https://www.linkedin.com", "/jobs/view/", "1", "?", "trk=x">>,
              <<" ", "Engineer", "\n", " ">>, <<"Acme">>, <<>>, <<"<div d>">>)
\* no organization text
CardG == Card(<<"urn:li:", "job:", "7">>, <<"/jobs/view/", "7">>,
              <<"Engineer">>, <<" ">>, <<>>, <<"<div g>">>)

Cards == {CardA, CardC, CardD, CardG}

_generate_job_id(card) ==
    IF Contains(card.urn, "job:")
    THEN AfterLast(card.urn, "job:")
    ELSE IF Contains(card.href, "/jobs/view/")
         THEN BeforeFirst(AfterLast(card.href, "/jobs/view/"), "?")
         ELSE <<ToString(PyHash(card.head))>>

\* s.replace(tok, '')
Without(s, tok) == SelectSeq(s, LAMBDA x : x # tok)

\* lines 197-204; card.title is the text of the first element a title
\* selector finds with text in it
_extract_job_title(card) ==
    IF Strip(card.title) = <<>>
    THEN <<>>
    ELSE _clean_text(Without(Without(card.title, "View job details for "), " job"))

_extract_company_name(card) ==
    IF Strip(card.company) = <<>> THEN <<>> ELSE _clean_text(card.company)

_extract_location(card) == _clean_text(card.location)

_extract_job_url(card) ==
    IF Contains(card.href, "/jobs/view/")
    THEN IF Head(card.href) = "/jobs/view/"
         THEN base_url \o card.href
         ELSE IF Contains(card.href, "https://www.linkedin.com")
              THEN card.href
              ELSE <<>>
    ELSE <<>>

_generate_fallback_id(job_data) ==
    LET joined == job_data.title \o <<"_">> \o job_data.company \o <<"_">>
                  \o job_data.location
        id_string == [i \in 1..Len(joined) |->
                        IF joined[i] = " " THEN "_" ELSE LowerTok(joined[i])]
    IN  <<ToString(PyHash(id_string) % FALLBACK_ID_MODULUS)>>

NoJob == [id |-> <<>>, title |-> <<>>, company |-> <<>>, location |-> <<>>,
          url |-> <<>>, status |-> <<>>]

\* a field holding only whitespace becomes the empty text
BlankToEmpty(v) == IF Strip(v) = <<>> THEN <<>> ELSE v

\* variant: only the title is required
_extract_job_data_TitleOnly(card) ==
    LET job_data == [id |-> _generate_job_id(card),
                     title |-> _extract_job_title(card),
                     company |-> _extract_company_name(card),
                     location |-> _extract_location(card),
                     url |-> _extract_job_url(card),
                     status |-> <<"Not Reviewed">>]
    IN  IF job_data.title # <<>> THEN job_data ELSE NoJob

\* the record of a card, or NoJob when title or company is missing
_extract_job_data(card) ==
    LET job_data == [id |-> _generate_job_id(card),
                     title |-> _extract_job_title(card),
                     company |-> _extract_company_name(card),
                     location |-> _extract_location(card),
                     url |-> _extract_job_url(card),
                     status |-> <<"Not Reviewed">>]
        cleaned == [k \in DOMAIN job_data |-> BlankToEmpty(job_data[k])]
        joined == IF cleaned.url # <<>> /\ Head(cleaned.url) # Head(base_url)
                  THEN [cleaned EXCEPT !.url = base_url \o @]
                  ELSE cleaned
    IN  IF job_data.title # <<>> /\ job_data.company # <<>>
        THEN IF joined.id = <<>>
             THEN [joined EXCEPT !.id = _generate_fallback_id(joined)]
             ELSE joined
        ELSE NoJob

_find_job_cards(doc) == doc.cards

RECURSIVE ExtractAll(_)
ExtractAll(cards) ==
    IF cards = <<>> THEN <<>>
    ELSE LET job_data == _extract_job_data(Head(cards))
         IN  (IF job_data # NoJob THEN <<job_data>> ELSE <<>>)
             \o ExtractAll(Tail(cards))

parse_job_listings(doc) == ExtractAll(_find_job_cards(doc))

(* ------------------------------ documents ----------------------------- *)
Plain == <<"<html>">>
Denied == <<"<html>", "Access Denied">>
NoMatch == <<"<html>", "No matching jobs found">>
ZeroResults == <<"<html>", "0 results">>

\* the empty page source ""
EmptyDoc == [text |-> <<>>, cards |-> <<>>]

SeqsUpTo(n) == UNION {[1..k -> Cards] : k \in 0..n}

\* the documents the site may serve when at most n more listing nodes fit
Docs(n) ==
    {[text |-> Plain, cards |-> c] : c \in SeqsUpTo(n)}
    \cup {[text |-> NoMatch, cards |-> c] : c \in {<<>>} \cup {<<CardG>> : k \in 1..n}}
    \cup {[text |-> ZeroResults, cards |-> <<>>], [text |-> Denied, cards |-> <<>>]}

DocsFor == [n \in 0..MaxCards |-> Docs(n)]

\* parse_job_listings of every document the site may serve
ParsedDoc == [d \in DocsFor[MaxCards] |-> parse_job_listings(d)]

LandingDocs == {[text |-> Plain, cards |-> <<>>], [text |-> Denied, cards |-> <<>>]}

blocking_indicators ==
    {"captcha", "blocked", "rate limit", "too many requests", "access denied",
     "forbidden", "security check", "unusual activity"}

\* is_blocked_or_captcha on a non-empty page source
IsBlockedText(text) == \E ind \in blocking_indicators : Contains(Lower(text), ind)

(* ------------------------------- state -------------------------------- *)
VARIABLES
    driver,                  \* WebDriverManager.driver: None or Browser
    request_count,           \* WebDriverManager.request_count
    last_request_set,        \* whether last_request_time is not None
    dead,                    \* whether the session of the handle in driver is invalid
    pc,                      \* position of the running call
    lastOp,                  \* the public call made last
    req,                     \* the arguments of search_jobs (current_search_params, max_pages)
    attempt,                 \* loop variable of navigate_to_url_with_retry
    nav_max,                 \* max_retries of the running navigate_to_url_with_retry
    nav_result,              \* what navigate_to_url_with_retry returned
    all_jobs,                \* local of _scrape_job_pages
    scraped_jobs,            \* LinkedInScraper.scraped_jobs
    current_page,            \* local of _scrape_job_pages
    consecutive_empty_pages, \* local of _scrape_job_pages
    result,                  \* what search_jobs returned
    served,                  \* listing nodes served during the run
    loads,                   \* history: page loads issued by the running navigate_to_url_with_retry
    prev_invalid,            \* history: the previous attempt failed with an invalid session
    navlog,                  \* history: events of the latest attempt of navigate_to_url_with_retry
    log,                     \* history: the phases search_jobs has completed
    last,                    \* history: the events of the latest step
    navs,                    \* history: calls of _navigate_to_next_page in the run
    parsed,                  \* history: the records each parsed page yielded
    ret,                     \* history: what the latest direct call on the controller returned
    pre,                     \* history: the controller state before that call
    repeated,                \* history: that call repeats the call before it
    input,                   \* the function applied on its own and its argument
    output,                  \* what that function returned
    ui,                      \* MainWindow: search_button enabled, rows of the table, scraping_worker, open message boxes
    workers,                 \* the ScrapingWorker threads started, in the order of their start
    events,                  \* signals queued for the slots of the main window
    earlier,                 \* history: the earlier calls of search_jobs on the scraper and the records they returned
    store                    \* JobDataManager: jobs_data, the clock second, and the call made last

sessVars == <<driver, request_count, last_request_set, dead>>
scrapeVars == <<all_jobs, scraped_jobs, current_page, consecutive_empty_pages, served,
                navs, parsed>>
navVars == <<attempt, nav_max, nav_result, loads, prev_invalid, navlog>>
vars == <<driver, request_count, last_request_set, dead, pc, lastOp,
          req, attempt, nav_max, nav_result, all_jobs, scraped_jobs,
          current_page, consecutive_empty_pages, result, served, loads,
          prev_invalid, navlog, log, last, navs, parsed, ret, pre, repeated,
          input, output, ui, workers, events, earlier, store>>
ctlVars == <<ret, pre, repeated>>
\* what a call on a scraper or on its controller leaves alone
uiVars == <<ui, workers, events>>
sideVars == <<input, output, uiVars, earlier, store>>

Ev(e, a) == [ev |-> e, arg |-> a]

Sess == [driver |-> driver, request_count |-> request_count,
         last_request_set |-> last_request_set, dead |-> dead]

SetSess(s) ==
    /\ driver' = s.driver
    /\ request_count' = s.request_count
    /\ last_request_set' = s.last_request_set
    /\ dead' = s.dead

(* ------------------------ session controller -------------------------- *)
\* setup_driver: the outcomes [s, raised].  The browser may fail to start
\* before self.driver is assigned, or a later configuration call may raise.
setup_driver(s) ==
    {[s |-> s, raised |-> TRUE]}
    \cup {[s |-> [s EXCEPT !.driver = Browser, !.dead = FALSE], raised |-> b] :
            b \in BOOLEAN}

get_driver(s) == IF s.driver = None THEN setup_driver(s) ELSE {[s |-> s, raised |-> FALSE]}

\* variant: the handle is dropped after quit(), not in a finally clause
cleanup_NoFinally(s, quitRaises) ==
    IF s.driver # None /\ ~quitRaises
    THEN [s EXCEPT !.driver = None, !.dead = FALSE]
    ELSE s

\* cleanup, quit() raising or not
cleanup(s, quitRaises) ==
    IF s.driver # None
    THEN [s EXCEPT !.driver = None, !.dead = FALSE]
    ELSE s

apply_request_delay(s) ==
    [s EXCEPT !.last_request_set = TRUE, !.request_count = @ + 1]

\* aged: whether the session started more than one hour ago
_should_refresh_session(s, aged) ==
    s.request_count >= max_requests_per_session \/ aged

\* _refresh_session: the outcomes [s, reset], quit() or setup_driver() raising
\* or not; reset says that lines 445-451 ran: counters and timestamps reset,
\* the old handle dropped
_refresh_outcomes(s) ==
    (IF s.driver # None THEN {[s |-> s, reset |-> FALSE]} ELSE {})
    \cup {[s |-> o.s, reset |-> TRUE] :
            o \in setup_driver([s EXCEPT !.request_count = 0,
                                         !.last_request_set = FALSE,
                                         !.driver = None,
                                         !.dead = FALSE])}

\* _refresh_session: the states it may leave
_refresh_session(s) == {o.s : o \in _refresh_outcomes(s)}

\* what a command sent to the browser of s may do
BrowserOutcomes(s) ==
    IF s.dead THEN {"invalid"} ELSE {"ok", "timeout", "invalid", "error"}

\* get_page_source_safe: the outcomes [s, ok]; ok says that driver.page_source
\* was returned, and "" is returned otherwise
get_page_source_safe(s) ==
    UNION {IF g.raised
           THEN {[s |-> g.s, ok |-> FALSE]}
           ELSE UNION {CASE o = "ok" -> {[s |-> g.s, ok |-> TRUE]}
                         [] o = "invalid" ->
                              {[s |-> r, ok |-> FALSE] :
                                 r \in _refresh_session([g.s EXCEPT !.dead = TRUE])}
                         [] OTHER -> {[s |-> g.s, ok |-> FALSE]}
                       : o \in BrowserOutcomes(g.s)}
           : g \in get_driver(s)}

\* the page sources an outcome of get_page_source_safe may carry
Sources(p, docs) == IF p.ok THEN docs ELSE {EmptyDoc}

\* event arguments: the load goes to a handle already known invalid; the
\* refresh left a usable handle
OnDead(s) == IF s.dead THEN 1 ELSE 0
Held(s) == IF s.driver # None /\ ~s.dead THEN 1 ELSE 0

\* variant: the exponent is one short
retry_delay_FromOne(a) == (2 ^ (a - 1)) * DEFAULT_REQUEST_DELAY

\* line 308: the wait before retry number a, in seconds
retry_delay(a) == (2 ^ a) * DEFAULT_REQUEST_DELAY

\* variant: range(max_retries) instead of range(max_retries + 1)
AfterFailure_OneShort(a, m) == IF a + 1 >= m THEN "false" ELSE "retry"

\* the verdict of a failed attempt: give up on the last one, else try again
AfterFailure(a, m) == IF a = m THEN "false" ELSE "retry"

\* One iteration of the loop of navigate_to_url_with_retry, for attempt a of
\* 0..m: the outcomes [s, res, evs], res being "true" (return True),
\* "false" (return False) or "retry" (next iteration).  The event "stale"
\* says that the session was due for a refresh and was not reset.
NavAttemptOutcomes(s, a, m) ==
    LET s1 == IF a > 0 THEN s ELSE apply_request_delay(s)
        ev1 == IF a > 0 THEN Ev("backoff", retry_delay(a)) ELSE Ev("delay", 0)
        \* aged: the session is older than one hour
        Checked == UNION {IF _should_refresh_session(s1, aged)
                          THEN {[s |-> r.s,
                                 evs |-> <<ev1, Ev("refresh", Held(r.s))>>
                                         \o (IF r.reset THEN <<>>
                                             ELSE <<Ev("stale", 0)>>)] :
                                  r \in _refresh_outcomes(s1)}
                          ELSE {[s |-> s1, evs |-> <<ev1>>]}
                          : aged \in BOOLEAN}
        Attempt(c, g) ==
            IF g.raised
            THEN {[s |-> g.s, res |-> AfterFailure(a, m),
                   evs |-> c.evs \o <<Ev("error", 0)>>]}
            ELSE UNION {
                   CASE o = "ok" ->
                          {[s |-> g.s, res |-> "true",
                            evs |-> c.evs \o <<Ev("load", OnDead(g.s))>>]}
                     [] o = "timeout" ->
                          {[s |-> g.s, res |-> AfterFailure(a, m),
                            evs |-> c.evs \o <<Ev("load", OnDead(g.s)), Ev("timeout", 0)>>]}
                     [] o = "invalid" ->
                          {[s |-> r, res |-> AfterFailure(a, m),
                            evs |-> c.evs \o <<Ev("load", OnDead(g.s)),
                                               Ev("invalid", 0),
                                               Ev("refresh", Held(r))>>] :
                             r \in _refresh_session([g.s EXCEPT !.dead = TRUE])}
                     [] OTHER ->
                          {[s |-> g.s, res |-> AfterFailure(a, m),
                            evs |-> c.evs \o <<Ev("load", OnDead(g.s)), Ev("error", 0)>>]}
                   : o \in BrowserOutcomes(g.s)}
    IN  UNION {UNION {Attempt(c, g) : g \in get_driver(c.s)} : c \in Checked}

\* _navigate_to_jobs_page after the navigation succeeded: the outcomes [s, res].
\* is_blocked_or_captcha fetches the page source again when handed "".
LandingOutcomes(s) ==
    UNION {UNION {LET again == IF d = EmptyDoc
                               THEN UNION {{[s |-> q.s, doc |-> e] : e \in Sources(q, LandingDocs)}
                                           : q \in get_page_source_safe(p.s)}
                               ELSE {[s |-> p.s, doc |-> d]}
                  IN  UNION {IF q.doc # EmptyDoc /\ IsBlockedText(q.doc.text)
                             THEN {[s |-> q.s, res |-> "blocked"]}
                             ELSE {[s |-> q.s, res |-> "ok"], [s |-> q.s, res |-> "no_form"]}
                             : q \in again}
                  : d \in Sources(p, LandingDocs)}
           : p \in get_page_source_safe(s)}

\* what the page of the search form turns out to have: the title input, the
\* location input, a submit button, the results container after submitting
FormFacts ==
    [title_input : BOOLEAN, location_input : BOOLEAN, search_button : BOOLEAN,
     results_container : BOOLEAN]

\* the try block of _input_search_parameters on a page with the facts f for
\* the request r: what it returns and what it did to the page
input_search_parameters(r, f) ==
    LET typed == (IF r.job_title THEN <<Ev("type_title", 0)>> ELSE <<>>)
                 \o (IF r.location /\ (r.job_title => f.title_input)
                     THEN (IF f.location_input THEN <<Ev("type_location", 0)>> ELSE <<>>)
                     ELSE <<>>)
    IN  IF r.job_title /\ ~f.title_input THEN [ok |-> FALSE, evs |-> <<>>]
        ELSE IF r.location /\ ~f.location_input THEN [ok |-> FALSE, evs |-> typed]
        ELSE IF f.search_button
        THEN [ok |-> f.results_container, evs |-> typed \o <<Ev("click_submit", 0)>>]
        ELSE IF r.job_title /\ f.title_input
        THEN [ok |-> f.results_container, evs |-> typed \o <<Ev("press_return", 0)>>]
        ELSE [ok |-> FALSE, evs |-> typed]

\* _input_search_parameters: the outcomes [s, ok]
InputOutcomes(s, r) ==
    UNION {IF g.raised
           THEN {[s |-> g.s, ok |-> FALSE]}
           ELSE UNION {
                  CASE o = "ok" ->
                         {[s |-> g.s, ok |-> input_search_parameters(r, f).ok] :
                              f \in FormFacts}
                    [] o = "invalid" -> {[s |-> [g.s EXCEPT !.dead = TRUE], ok |-> FALSE]}
                    [] OTHER -> {[s |-> g.s, ok |-> FALSE]}
                  : o \in BrowserOutcomes(g.s)}
           : g \in get_driver(s)}

\* _apply_filters: the outcomes [s, evs]; it returns True on every path
FilterOutcomes(s, r) ==
    IF r.job_type = "All" /\ r.experience_level = "All"
    THEN {[s |-> s, evs |-> <<>>]}
    ELSE UNION {IF g.raised
                THEN {[s |-> g.s, evs |-> <<Ev("filter_error", 0)>>]}
                ELSE {[s |-> g.s,
                       evs |-> (IF r.job_type # "All" /\ ~f[1]
                                THEN <<Ev("filter_fail", 1)>> ELSE <<>>)
                               \o (IF r.experience_level # "All" /\ ~f[2]
                                   THEN <<Ev("filter_fail", 2)>> ELSE <<>>)] :
                        f \in [1..2 -> BOOLEAN]}
                : g \in get_driver(s)}

\* the elements a next-button selector may match: shown and usable, not
\* displayed, not enabled, with 'disabled' among its classes, or stale (its
\* inspection raises)
ElementKinds == {"usable", "hidden", "not_enabled", "disabled_class", "stale"}

\* what the page turns out to be for _navigate_to_next_page: the elements the
\* selectors match, in order; what next_button.click() does; what the
\* script-driven click does; whether the address has changed afterwards
NextFacts ==
    [elements : {<<>>, <<"usable">>, <<"hidden">>, <<"not_enabled">>, <<"disabled_class">>,
                 <<"stale", "usable">>, <<"hidden", "stale">>},
     click : {"ok", "ElementNotInteractableException", "ElementClickInterceptedException",
              "WebDriverException"},
     script_click : {"ok", "WebDriverException"},
     url_changed : BOOLEAN]

\* variant: the address is not compared
AfterClick_Unverified(f) == TRUE

\* new_url != current_url
AfterClick(f) == f.url_changed

\* the try block of _navigate_to_next_page on a page with the facts f: what
\* it returns and what it did to the page. An exception that is not an
\* ElementNotInteractableException leaves the inner try and is caught by
\* the outer except clause.
navigate_to_next_page(f) ==
    LET next_button == \E i \in 1..Len(f.elements) : f.elements[i] = "usable"
        located == <<Ev("located", 0)>>
        compared == Ev("compare_url", IF f.url_changed THEN 1 ELSE 0)
    IN  IF ~next_button THEN [ok |-> FALSE, evs |-> <<Ev("not_located", 0)>>]
        ELSE IF f.click = "ok"
        THEN [ok |-> AfterClick(f), evs |-> located \o <<Ev("click", 0), compared>>]
        ELSE IF f.click = "ElementNotInteractableException"
        THEN IF f.script_click = "ok"
             THEN [ok |-> AfterClick(f),
                   evs |-> located \o <<Ev("click_raised", 0), Ev("script_click", 0), compared>>]
             ELSE [ok |-> FALSE,
                   evs |-> located \o <<Ev("click_raised", 0), Ev("script_click_raised", 0)>>]
        ELSE [ok |-> FALSE, evs |-> located \o <<Ev("click_raised", 0)>>]

\* the events of a call say that a next button was located and clicked, by
\* the driver or by script, and that the address was found changed
Navigated(evs) ==
    /\ \E i \in 1..Len(evs) : evs[i].ev = "located"
    /\ \E i \in 1..Len(evs) : evs[i].ev \in {"click", "script_click"}
    /\ \E i \in 1..Len(evs) : evs[i] = Ev("compare_url", 1)

\* _navigate_to_next_page: the outcomes [s, ok, navigated]
NextPageOutcomes(s) ==
    UNION {IF g.raised
           THEN {[s |-> g.s, ok |-> FALSE, navigated |-> FALSE]}
           ELSE UNION {
                  CASE o = "ok" -> {[s |-> g.s, ok |-> navigate_to_next_page(f).ok,
                                     navigated |-> Navigated(navigate_to_next_page(f).evs)] :
                                        f \in NextFacts}
                    [] o = "invalid" -> {[s |-> [g.s EXCEPT !.dead = TRUE], ok |-> FALSE,
                                          navigated |-> FALSE]}
                    [] OTHER -> {[s |-> g.s, ok |-> FALSE, navigated |-> FALSE]}
                  : o \in BrowserOutcomes(g.s)}
           : g \in get_driver(s)}

RECURSIVE Dedup_ByUrl(_, _, _)
\* variant: only the url is looked up
Dedup_ByUrl(page_jobs, existing_ids, existing_urls) ==
    IF page_jobs = <<>> THEN <<>>
    ELSE LET job == Head(page_jobs)
         IN  IF job.url \in existing_urls
             THEN Dedup_ByUrl(Tail(page_jobs), existing_ids, existing_urls)
             ELSE <<job>> \o Dedup_ByUrl(Tail(page_jobs), existing_ids,
                                         existing_urls \cup {job.url})

RECURSIVE Dedup_ById(_, _, _)
\* variant: only the id is looked up
Dedup_ById(page_jobs, existing_ids, existing_urls) ==
    IF page_jobs = <<>> THEN <<>>
    ELSE LET job == Head(page_jobs)
         IN  IF job.id \in existing_ids
             THEN Dedup_ById(Tail(page_jobs), existing_ids, existing_urls)
             ELSE <<job>> \o Dedup_ById(Tail(page_jobs), existing_ids \cup {job.id},
                                        existing_urls)

\* variant: the records kept from the page itself are not added to the sets
Dedup_NoTrack(page_jobs, existing_ids, existing_urls) ==
    SelectSeq(page_jobs, LAMBDA job : job.id \notin existing_ids
                                      /\ job.url \notin existing_urls)

RECURSIVE Dedup(_, _, _)
\* the new_jobs of a page: the records whose id and url were not seen before
Dedup(page_jobs, existing_ids, existing_urls) ==
    IF page_jobs = <<>> THEN <<>>
    ELSE LET job == Head(page_jobs)
         IN  IF job.id \in existing_ids \/ job.url \in existing_urls
             THEN Dedup(Tail(page_jobs), existing_ids, existing_urls)
             ELSE <<job>> \o Dedup(Tail(page_jobs), existing_ids \cup {job.id},
                                   existing_urls \cup {job.url})

Ids(jobs) == {jobs[i].id : i \in 1..Len(jobs)}
Urls(jobs) == {jobs[i].url : i \in 1..Len(jobs)}

SearchParams ==
    {[job_title |-> TRUE, location |-> TRUE, job_type |-> "All", experience_level |-> "All"],
     [job_title |-> TRUE, location |-> FALSE, job_type |-> "Full-time", experience_level |-> "Entry"],
     [job_title |-> FALSE, location |-> TRUE, job_type |-> "All", experience_level |-> "Senior"],
     [job_title |-> FALSE, location |-> FALSE, job_type |-> "All", experience_level |-> "All"]}

Requests ==
    {[job_title |-> q.job_title, location |-> q.location, job_type |-> q.job_type,
      experience_level |-> q.experience_level, max_pages |-> n] :
        q \in SearchParams, n \in 0..MaxPages}

NoRequest == [job_title |-> FALSE, location |-> FALSE, job_type |-> "All",
              experience_level |-> "All", max_pages |-> 0]

(* ------------------------------- actions ------------------------------ *)
\* no function is applied on its own
NoInput == [fn |-> "none"]
NoOutput == [returned |-> FALSE]

\* no call of search_jobs has returned
NoneEarlier == [searches |-> 0, jobs |-> {}]

\* the state after construction of a scraper and its controller
Constructed ==
    /\ driver = None /\ request_count = 0
    /\ last_request_set = FALSE /\ dead = FALSE
    /\ pc = "idle" /\ lastOp = "none" /\ req = NoRequest
    /\ attempt = 0 /\ nav_max = 0 /\ nav_result = "none"
    /\ all_jobs = <<>> /\ scraped_jobs = <<>> /\ current_page = 1
    /\ consecutive_empty_pages = 0 /\ result = <<>> /\ served = 0
    /\ loads = 0 /\ prev_invalid = FALSE
    /\ navlog = <<>> /\ log = <<>> /\ last = <<>> /\ navs = 0 /\ parsed = <<>>
    /\ ret = "none" /\ repeated = FALSE /\ earlier = NoneEarlier
    /\ pre = [driver |-> None, request_count |-> 0, last_request_set |-> FALSE,
              dead |-> FALSE]

\* JobDataManager.__init__: jobs_data = {}; the clock at its first second
NoJobsData == [jobs_data |-> <<>>, now |-> 0, calls |-> 0, call |-> [op |-> "none"]]

\* MainWindow.__init__: a data manager, no worker, the search button enabled,
\* an empty table
WindowConstructed ==
    /\ ui = [search_button |-> TRUE, table |-> <<>>, scraping_worker |-> None,
             status |-> "ready", boxes |-> 0, handled |-> <<>>]
    /\ workers = <<>>
    /\ events = <<>>
    /\ store = NoJobsData

Init ==
    /\ Constructed
    /\ WindowConstructed
    /\ input = NoInput /\ output = NoOutput

\* search_jobs returns jobs from session state s: the finally clause runs cleanup
Return(s, jobs, evs) ==
    /\ \E after \in {cleanup(s, quitRaises) : quitRaises \in BOOLEAN} : SetSess(after)
    /\ result' = jobs
    /\ pc' = "done"
    /\ last' = evs \o <<Ev("cleanup", 0), Ev("return", Len(jobs))>>
    /\ UNCHANGED log

\* variant: the records of the scraper are kept
Cleared_Kept(jobs) == jobs

\* self.scraped_jobs = []
Cleared(jobs) == <<>>

\* search_jobs is entered: parameters stored, previous results cleared
Entered(r) ==
    /\ lastOp' = "search"
    /\ req' = r
    /\ scraped_jobs' = Cleared(scraped_jobs)
    /\ pc' = "nav"
    /\ attempt' = 0 /\ nav_max' = MAX_RETRY_ATTEMPTS /\ nav_result' = "none"
    /\ loads' = 0 /\ prev_invalid' = FALSE /\ navlog' = <<>>
    /\ log' = <<>> /\ last' = <<>>
    /\ result' = <<>> /\ served' = 0 /\ navs' = 0 /\ parsed' = <<>>
    /\ all_jobs' = <<>> /\ current_page' = 1 /\ consecutive_empty_pages' = 0
    /\ UNCHANGED <<sessVars, ctlVars, input, output, uiVars, store>>

\* search_jobs is called on a scraper just constructed
Search(r) ==
    /\ pc = "idle"
    /\ Entered(r)
    /\ UNCHANGED earlier

\* search_jobs is called on a scraper whose search_jobs has returned
SearchAgain(r) ==
    /\ pc = "done"
    /\ lastOp = "search"
    /\ earlier.searches + 1 < MaxSearches
    /\ earlier' = [searches |-> earlier.searches + 1,
                    jobs |-> earlier.jobs \cup {result[i] : i \in 1..Len(result)}]
    /\ Entered(r)

\* navigate_to_url_with_retry is called on the controller with max_retries = m
Navigate(m) ==
    /\ pc = "idle"
    /\ lastOp' = "navigate"
    /\ pc' = "nav"
    /\ attempt' = 0 /\ nav_max' = m /\ nav_result' = "none"
    /\ loads' = 0 /\ prev_invalid' = FALSE /\ navlog' = <<>>
    /\ UNCHANGED <<sessVars, req, result, scrapeVars, log, last, ctlVars, sideVars>>

\* one iteration of the retry loop
NavAttempt ==
    /\ pc = "nav"
    /\ \E o \in NavAttemptOutcomes(Sess, attempt, nav_max) :
         /\ navlog' = o.evs
         /\ loads' = loads + Cardinality({i \in 1..Len(o.evs) : o.evs[i].ev = "load"})
         /\ prev_invalid' = \E i \in 1..Len(o.evs) : o.evs[i].ev = "invalid"
         /\ attempt' = IF o.res = "retry" THEN attempt + 1 ELSE attempt
         /\ nav_result' = IF o.res = "retry" THEN "none" ELSE o.res
         /\ IF o.res = "retry"
            THEN /\ SetSess(o.s)
                 /\ UNCHANGED <<pc, log, last, result>>
            ELSE IF lastOp = "navigate"
            THEN /\ SetSess(o.s)
                 /\ pc' = "done"
                 /\ UNCHANGED <<log, last, result>>
            ELSE IF o.res = "true"
            THEN /\ SetSess(o.s)
                 /\ pc' = "landing"
                 /\ log' = Append(log, "nav")
                 /\ last' = <<Ev("nav_ok", 0)>>
                 /\ UNCHANGED result
            ELSE Return(o.s, <<>>, <<Ev("nav_fail", 0)>>)
    /\ UNCHANGED <<lastOp, req, nav_max, scrapeVars, ctlVars, sideVars>>

\* the rest of _navigate_to_jobs_page: blocking check and search form
Landing ==
    /\ pc = "landing"
    /\ \E o \in LandingOutcomes(Sess) :
         IF o.res = "ok"
         THEN /\ SetSess(o.s)
              /\ pc' = "input"
              /\ log' = Append(log, "landing")
              /\ last' = <<Ev("landing_ok", 0)>>
              /\ UNCHANGED result
         ELSE Return(o.s, <<>>, <<Ev(IF o.res = "blocked" THEN "landing_blocked"
                                     ELSE "landing_fail", 0)>>)
    /\ attempt' = 0 /\ nav_max' = 0 /\ nav_result' = "none"
    /\ loads' = 0 /\ prev_invalid' = FALSE /\ navlog' = <<>>
    /\ UNCHANGED <<lastOp, req, scrapeVars, ctlVars, sideVars>>

\* _input_search_parameters
InputParameters ==
    /\ pc = "input"
    /\ \E o \in InputOutcomes(Sess, req) :
         IF o.ok
         THEN /\ SetSess(o.s)
              /\ pc' = "filters"
              /\ log' = Append(log, "input")
              /\ last' = <<Ev("input_ok", 0)>>
              /\ UNCHANGED result
         ELSE Return(o.s, <<>>, <<Ev("input_fail", 0)>>)
    /\ UNCHANGED <<lastOp, req, navVars, scrapeVars, ctlVars, sideVars>>

\* variant: a filter that could not be applied ends the search
ApplyFilters_Abort ==
    /\ pc = "filters"
    /\ \E o \in FilterOutcomes(Sess, req) :
         IF o.evs = <<>>
         THEN /\ SetSess(o.s)
              /\ last' = <<Ev("filters_done", 0)>>
              /\ log' = Append(log, "filters")
              /\ pc' = "loop"
              /\ UNCHANGED result
         ELSE Return(o.s, <<>>, o.evs)
    /\ all_jobs' = <<>> /\ current_page' = 1 /\ consecutive_empty_pages' = 0
    /\ req' = [NoRequest EXCEPT !.max_pages = req.max_pages]
    /\ UNCHANGED <<lastOp, navVars, scraped_jobs, served, navs, parsed, ctlVars, sideVars>>

\* _apply_filters, then entry into _scrape_job_pages
ApplyFilters ==
    /\ pc = "filters"
    /\ \E o \in FilterOutcomes(Sess, req) :
         /\ SetSess(o.s)
         /\ last' = o.evs \o <<Ev("filters_done", 0)>>
    /\ log' = Append(log, "filters")
    /\ pc' = "loop"
    /\ all_jobs' = <<>> /\ current_page' = 1 /\ consecutive_empty_pages' = 0
    \* the search parameters are not read again: only max_pages is kept
    /\ req' = [NoRequest EXCEPT !.max_pages = req.max_pages]
    /\ UNCHANGED <<lastOp, navVars, result, scraped_jobs, served, navs, parsed, ctlVars, sideVars>>


\* the while loop is left: self.scraped_jobs = all_jobs; return all_jobs,
\* which search_jobs returns in turn
LeaveLoop(s, evs) ==
    /\ scraped_jobs' = all_jobs
    /\ Return(s, all_jobs, evs)

\* variant: the page counter is not advanced on the last page
AfterPage_NoAdvance(s, evs) ==
    /\ SetSess(s)
    /\ last' = evs
    /\ UNCHANGED <<result, scraped_jobs, log, current_page>>
    /\ pc' = IF current_page < req.max_pages THEN "next" ELSE "delay"

\* lines 454-463 up to the call of _navigate_to_next_page
AfterPage(s, evs) ==
    /\ SetSess(s)
    /\ last' = evs
    /\ UNCHANGED <<result, scraped_jobs, log>>
    /\ IF current_page < req.max_pages
       THEN pc' = "next" /\ UNCHANGED current_page
       ELSE pc' = "delay" /\ current_page' = current_page + 1

\* variant: continue instead of break
BlockedContinue(s, evs) ==
    /\ SetSess(s)
    /\ pc' = "loop"
    /\ last' = evs
    /\ UNCHANGED <<result, scraped_jobs, log, all_jobs, current_page,
                   consecutive_empty_pages, served, parsed>>

\* lines 406-409: blocking detected, break
BlockedBreak(s, evs) ==
    /\ LeaveLoop(s, evs)
    /\ UNCHANGED <<all_jobs, current_page, consecutive_empty_pages, served, parsed>>

HasNoResultsMarker(text) ==
    Contains(text, "No matching jobs found") \/ Contains(text, "0 results")

\* variant: a page adding no new record counts as an empty page
EmptyPagesAfter_NewOnly(count, page_jobs, new_jobs) ==
    IF new_jobs = <<>> THEN count + 1 ELSE 0

\* lines 414-416 and 430-431: consecutive_empty_pages after the parse of a page
EmptyPagesAfter(count, page_jobs, new_jobs) ==
    IF page_jobs = <<>> THEN count + 1 ELSE 0

\* one iteration of the while loop of _scrape_job_pages, up to its break,
\* its continue or its call of _navigate_to_next_page
ScrapePage ==
    /\ pc = "loop"
    /\ IF ~(current_page <= req.max_pages /\ consecutive_empty_pages < max_empty_pages)
       THEN /\ LeaveLoop(Sess, <<Ev("loop_end", 0)>>)
            /\ UNCHANGED <<all_jobs, current_page, consecutive_empty_pages, served, parsed>>
       ELSE \E q \in get_page_source_safe(Sess) :
            \E d \in Sources(q, DocsFor[MaxCards - served]) :
              LET p == [s |-> q.s, doc |-> d]
                  fetched == Ev("fetch", current_page)
                  page_jobs == ParsedDoc[p.doc]
                  new_jobs == Dedup(page_jobs, Ids(all_jobs), Urls(all_jobs))
                  empties == consecutive_empty_pages + 1
                  parsedEv == Ev("parse", Len(page_jobs))
              IN  IF p.doc = EmptyDoc
                  THEN /\ consecutive_empty_pages' = empties
                       /\ UNCHANGED <<all_jobs, current_page, served, parsed>>
                       /\ IF empties >= max_empty_pages
                          THEN LeaveLoop(p.s, <<fetched, Ev("empty_source", 0)>>)
                          ELSE /\ SetSess(p.s)
                               /\ pc' = "loop"
                               /\ last' = <<fetched, Ev("empty_source", 0)>>
                               /\ UNCHANGED <<result, scraped_jobs, log>>
                  ELSE IF IsBlockedText(p.doc.text)
                  THEN BlockedBreak(p.s, <<fetched, Ev("blocked", current_page)>>)
                  ELSE /\ served' = served + Len(p.doc.cards)
                       /\ parsed' = Append(parsed, page_jobs)
                       /\ IF page_jobs = <<>>
                          THEN /\ consecutive_empty_pages' =
                                      EmptyPagesAfter(consecutive_empty_pages, page_jobs, new_jobs)
                               /\ UNCHANGED all_jobs
                               /\ IF HasNoResultsMarker(p.doc.text)
                                  THEN /\ LeaveLoop(p.s, <<fetched, parsedEv, Ev("no_results", 0)>>)
                                       /\ UNCHANGED current_page
                                  ELSE IF current_page < req.max_pages
                                          /\ empties < max_empty_pages
                                  THEN /\ SetSess(p.s)
                                       /\ pc' = "next_empty"
                                       /\ last' = <<fetched, parsedEv>>
                                       /\ UNCHANGED <<current_page, result, scraped_jobs, log>>
                                  ELSE AfterPage(p.s, <<fetched, parsedEv>>)
                          ELSE /\ consecutive_empty_pages' =
                                      EmptyPagesAfter(consecutive_empty_pages, page_jobs, new_jobs)
                               /\ all_jobs' = all_jobs \o new_jobs
                               /\ AfterPage(p.s, <<fetched, parsedEv>>)
    /\ UNCHANGED <<lastOp, req, navVars, navs, ctlVars, sideVars>>

\* the call of _navigate_to_next_page, at line 425 (pc = "next_empty") or at
\* line 456 (pc = "next"), and what follows it in the iteration
NextPage ==
    /\ pc \in {"next_empty", "next"}
    /\ \E o \in NextPageOutcomes(Sess) :
         LET navigated == Ev("navigated", IF o.navigated THEN 1 ELSE 0)
         IN
         IF o.ok
         THEN /\ SetSess(o.s)
              /\ current_page' = current_page + 1
              /\ pc' = IF pc = "next_empty" THEN "loop" ELSE "delay"
              /\ last' = <<Ev("next_ok", current_page), navigated>>
              /\ UNCHANGED <<result, scraped_jobs, log>>
         ELSE /\ LeaveLoop(o.s, <<Ev("next_fail", current_page), navigated>>)
              /\ UNCHANGED current_page
    /\ navs' = navs + 1
    /\ UNCHANGED <<lastOp, req, navVars, all_jobs, consecutive_empty_pages,
                   served, parsed, ctlVars, sideVars>>

\* line 463: the delay between pages
PageDelay ==
    /\ pc = "delay"
    /\ SetSess(apply_request_delay(Sess))
    /\ pc' = "loop"
    /\ last' = <<Ev("page_delay", 0)>>
    /\ UNCHANGED <<lastOp, req, navVars, scrapeVars, result, log, ctlVars, sideVars>>

Next ==
    \/ \E r \in Requests : Search(r)
    \/ \E m \in 0..MaxRetryArg : Navigate(m)
    \/ NavAttempt
    \/ Landing
    \/ InputParameters
    \/ ApplyFilters
    \/ ScrapePage
    \/ NextPage
    \/ PageDelay

Spec == Init /\ [][Next]_vars

\* the calls return: every started step is eventually taken
FairSpec == Spec /\ WF_vars(Next)

\* the searches made on a scraper that is used again: title and location
\* given, two pages asked for, so that each search turns a page
ReuseRequests == {r \in Requests : r.job_title /\ r.location /\ r.max_pages = 2}

ReuseNext ==
    \/ \E r \in ReuseRequests : Search(r)
    \/ \E r \in ReuseRequests : SearchAgain(r)
    \/ NavAttempt
    \/ Landing
    \/ InputParameters
    \/ ApplyFilters
    \/ ScrapePage
    \/ NextPage
    \/ PageDelay

\* one scraper, search_jobs called on it again after it returned
ReuseSpec == Init /\ [][ReuseNext]_vars

(* --------------------- direct calls on the controller ----------------- *)
\* the values random.uniform(base_delay, max_delay) may draw: whole seconds
Draws == DEFAULT_REQUEST_DELAY..MAX_REQUEST_DELAY

\* the times since the last request a call may find, in half seconds
Idles == {4 * k : k \in 0..MaxIdle}

\* lines 270-276 of apply_request_delay: the delay computed from the drawn
\* value d (seconds) under the given request count, in half seconds
request_delay(count, d) ==
    LET delay == 2 * d
        after20 == IF count > 20 THEN (3 * delay) \div 2 ELSE delay
    IN  IF count > 50 THEN 2 * after20 ELSE after20

\* variant: nothing is slept
sleep_time_None(s, delay, time_since_last) == 0

\* lines 279-284 of apply_request_delay: the time slept, in half seconds
sleep_time(s, delay, time_since_last) ==
    IF s.last_request_set /\ time_since_last < delay
    THEN delay - time_since_last
    ELSE 0

\* navigate_to_url: the outcomes [s, ret, evs]; aged: the session is older
\* than one hour when the page is loaded
navigate_to_url(s) ==
    UNION {IF g.raised
           THEN {[s |-> g.s, ret |-> "false", evs |-> <<>>]}
           ELSE UNION {UNION {
                  LET evs == <<Ev("load", OnDead(g.s))>>
                             \o (IF _should_refresh_session(g.s, aged)
                                 THEN <<Ev("stale_load", 1)>> ELSE <<>>)
                  IN  CASE o = "ok" -> {[s |-> g.s, ret |-> "true", evs |-> evs]}
                        [] o = "invalid" ->
                             {[s |-> [g.s EXCEPT !.dead = TRUE], ret |-> "false",
                               evs |-> evs]}
                        [] OTHER -> {[s |-> g.s, ret |-> "false", evs |-> evs]}
                  : aged \in BOOLEAN}
                  : o \in BrowserOutcomes(g.s)}
           : g \in get_driver(apply_request_delay(s))}

\* wait_for_page_load: the outcomes [s, ret]; only TimeoutException is caught,
\* and without a handle get_wait() returns None
wait_for_page_load(s) ==
    IF s.driver = None
    THEN {[s |-> s, ret |-> "raised"]}
    ELSE {CASE o = "ok" -> [s |-> s, ret |-> "true"]
            [] o = "timeout" -> [s |-> s, ret |-> "false"]
            [] o = "invalid" -> [s |-> [s EXCEPT !.dead = TRUE], ret |-> "raised"]
            [] OTHER -> [s |-> s, ret |-> "raised"]
          : o \in BrowserOutcomes(s)}

\* wait_for_element: the outcomes [s, ret]
wait_for_element(s) ==
    IF s.driver = None
    THEN {[s |-> s, ret |-> "absent"]}
    ELSE {CASE o = "ok" -> [s |-> s, ret |-> "element"]
            [] o = "invalid" -> [s |-> [s EXCEPT !.dead = TRUE], ret |-> "absent"]
            [] OTHER -> [s |-> s, ret |-> "absent"]
          : o \in BrowserOutcomes(s)}

\* find_elements_safe: the outcomes [s, ret]
find_elements_safe(s) ==
    UNION {IF g.raised
           THEN {[s |-> g.s, ret |-> "empty"]}
           ELSE UNION {
                  CASE o = "ok" -> {[s |-> g.s, ret |-> "elements"],
                                    [s |-> g.s, ret |-> "empty"]}
                    [] o = "invalid" -> {[s |-> [g.s EXCEPT !.dead = TRUE], ret |-> "empty"]}
                    [] OTHER -> {[s |-> g.s, ret |-> "empty"]}
                  : o \in BrowserOutcomes(g.s)}
           : g \in get_driver(s)}

\* is_blocked_or_captcha(): the outcomes [s, ret]
is_blocked_or_captcha(s) ==
    UNION {{[s |-> p.s,
             ret |-> IF d # EmptyDoc /\ IsBlockedText(d.text) THEN "true" ELSE "false"] :
              d \in Sources(p, LandingDocs)}
           : p \in get_page_source_safe(s)}

\* what a lookup followed by is_displayed() may do
ElementOutcomes(s) ==
    IF s.dead THEN {"invalid"} ELSE {"live", "stale", "timeout", "invalid", "error"}

\* variant: one more lookup than range(max_retries + 1) allows
AfterStale_OneMore(a, m) == IF a > m THEN "absent" ELSE "retry"

\* lines 375-380: the verdict on a stale element
AfterStale(a, m) == IF a = m THEN "absent" ELSE "retry"

RECURSIVE wait_for_element_with_retry(_, _, _)
\* wait_for_element_with_retry from attempt a on: the outcomes [s, ret, evs],
\* evs holding one event per attempt
wait_for_element_with_retry(s, a, m) ==
    IF s.driver = None
    THEN {[s |-> s, ret |-> "absent", evs |-> <<Ev("no_handle", a)>>]}
    ELSE UNION {
           CASE o = "live" -> {[s |-> s, ret |-> "element", evs |-> <<Ev("live", a)>>]}
             [] o = "stale" ->
                  IF AfterStale(a, m) = "absent"
                  THEN {[s |-> s, ret |-> "absent", evs |-> <<Ev("stale", a)>>]}
                  ELSE {[r EXCEPT !.evs = <<Ev("stale", a)>> \o @] :
                          r \in wait_for_element_with_retry(s, a + 1, m)}
             [] o = "invalid" ->
                  {[s |-> [s EXCEPT !.dead = TRUE], ret |-> "absent",
                    evs |-> <<Ev("error", a)>>]}
             [] OTHER -> {[s |-> s, ret |-> "absent", evs |-> <<Ev(o, a)>>]}
           : o \in ElementOutcomes(s)}

\* a direct call of operation op, made when no call is running, returns r
\* and leaves the controller in s
Called(op, s, r, evs) ==
    /\ pc \in {"idle", "done"}
    /\ pc' = "idle"
    /\ SetSess(s)
    /\ lastOp' = op
    /\ repeated' = (lastOp = op)
    /\ pre' = Sess
    /\ ret' = r
    /\ last' = evs
    /\ attempt' = 0 /\ nav_max' = 0 /\ nav_result' = "none"
    /\ loads' = 0 /\ prev_invalid' = FALSE /\ navlog' = <<>>
    /\ UNCHANGED <<req, scrapeVars, result, log, sideVars>>

\* the counted calls are made while fewer than cap requests were counted
ApplyRequestDelay(cap) ==
    /\ request_count < cap
    /\ \E d \in Draws, time_since_last \in Idles :
         LET delay == request_delay(request_count, d)
         IN  Called("apply_request_delay", apply_request_delay(Sess), "none",
                    <<Ev("drawn", d), Ev("computed", delay),
                      Ev("idle", time_since_last),
                      Ev("slept", sleep_time(Sess, delay, time_since_last))>>)

GetDriver ==
    \E o \in get_driver(Sess) :
        Called("get_driver", o.s, IF o.raised THEN "raised" ELSE "handle", <<>>)

NavigateToUrl(cap) ==
    /\ request_count < cap
    /\ \E o \in navigate_to_url(Sess) : Called("navigate_to_url", o.s, o.ret, o.evs)

\* navigate_to_url_with_retry is called with max_retries = m when no call
\* is running; NavAttempt runs its loop
NavigateToUrlWithRetry(cap, m) ==
    /\ pc \in {"idle", "done"}
    /\ request_count < cap
    /\ lastOp' = "navigate"
    /\ repeated' = (lastOp = "navigate")
    /\ pre' = Sess
    /\ ret' = "none"
    /\ last' = <<>>
    /\ pc' = "nav"
    /\ attempt' = 0 /\ nav_max' = m /\ nav_result' = "none"
    /\ loads' = 0 /\ prev_invalid' = FALSE /\ navlog' = <<>>
    /\ UNCHANGED <<sessVars, req, scrapeVars, result, log, sideVars>>

WaitForPageLoad ==
    \E o \in wait_for_page_load(Sess) : Called("wait_for_page_load", o.s, o.ret, <<>>)

WaitForElement ==
    \E o \in wait_for_element(Sess) : Called("wait_for_element", o.s, o.ret, <<>>)

WaitForElementWithRetry ==
    \E m \in 0..MaxRetryArg :
    \E o \in wait_for_element_with_retry(Sess, 0, m) :
        Called("wait_for_element_with_retry", o.s, o.ret, <<Ev("max_retries", m)>> \o o.evs)

FindElementsSafe ==
    \E o \in find_elements_safe(Sess) : Called("find_elements_safe", o.s, o.ret, <<>>)

GetPageSourceSafe ==
    \E o \in get_page_source_safe(Sess) :
        Called("get_page_source_safe", o.s, IF o.ok THEN "text" ELSE "empty", <<>>)

IsBlockedOrCaptcha ==
    \E o \in is_blocked_or_captcha(Sess) : Called("is_blocked_or_captcha", o.s, o.ret, <<>>)

Cleanup ==
    \E o \in {[s |-> cleanup(Sess, quitRaises), quitRaises |-> quitRaises] :
                quitRaises \in BOOLEAN} :
        Called("cleanup", o.s, "none",
               IF driver # None
               THEN <<Ev("quit", IF o.quitRaises THEN 1 ELSE 0)>> ELSE <<>>)

\* _refresh_session, as called by handle_rate_limiting and handle_connection_error
RefreshSession ==
    \E o \in _refresh_outcomes(Sess) :
        Called("_refresh_session", o.s, "none",
               <<Ev("reset", IF o.reset THEN 1 ELSE 0)>>)

\* the calls that count requests, up to MaxRequests of them
PaceNext ==
    \/ ApplyRequestDelay(MaxRequests)
    \/ NavigateToUrl(MaxRequests)
    \/ \E m \in 0..MaxRetryArg : NavigateToUrlWithRetry(MaxRequests, m)
    \/ NavAttempt
    \/ RefreshSession

\* any sequence of counted calls and refreshes on a controller
PaceSpec == Init /\ [][PaceNext]_vars

CtlNext ==
    \/ ApplyRequestDelay(MaxCalls)
    \/ GetDriver
    \/ NavigateToUrl(MaxCalls)
    \/ \E m \in 0..MaxRetryArg : NavigateToUrlWithRetry(MaxCalls, m)
    \/ NavAttempt
    \/ WaitForPageLoad
    \/ WaitForElement
    \/ WaitForElementWithRetry
    \/ FindElementsSafe
    \/ GetPageSourceSafe
    \/ IsBlockedOrCaptcha
    \/ Cleanup
    \/ RefreshSession

\* any sequence of direct calls on a controller
CtlSpec == Init /\ [][CtlNext]_vars

(* ------------------- functions applied on their own -------------------- *)
\* Text is a sequence of characters here.
UpperCase == <<"A", "B", "C", "D", "E", "F", "G", "H", "I", "J", "K", "L", "M", "N", "O", "P", "Q", "R", "S", "T", "U", "V", "W", "X", "Y", "Z">>
LowerCase == <<"a", "b", "c", "d", "e", "f", "g", "h", "i", "j", "k", "l", "m", "n", "o", "p", "q", "r", "s", "t", "u", "v", "w", "x", "y", "z">>

\* str.lower() and str.upper() on one character
LowerChar(c) ==
    IF \E i \in 1..Len(UpperCase) : UpperCase[i] = c
    THEN LowerCase[CHOOSE i \in 1..Len(UpperCase) : UpperCase[i] = c]
    ELSE c
UpperChar(c) ==
    IF \E i \in 1..Len(LowerCase) : LowerCase[i] = c
    THEN UpperCase[CHOOSE i \in 1..Len(LowerCase) : LowerCase[i] = c]
    ELSE c

\* s.lower()
LowerStr(s) == [i \in 1..Len(s) |-> LowerChar(s[i])]

\* needle in hay
IsSubstring(needle, hay) ==
    \E i \in 0..(Len(hay) - Len(needle)) : SubSeq(hay, i + 1, i + Len(needle)) = needle

\* the list blocking_indicators, character by character
indicator_chars ==
    {<<"c", "a", "p", "t", "c", "h", "a">>,
     <<"b", "l", "o", "c", "k", "e", "d">>,
     <<"r", "a", "t", "e", " ", "l", "i", "m", "i", "t">>,
     <<"t", "o", "o", " ", "m", "a", "n", "y", " ", "r", "e", "q", "u", "e", "s", "t", "s">>,
     <<"a", "c", "c", "e", "s", "s", " ", "d", "e", "n", "i", "e", "d">>,
     <<"f", "o", "r", "b", "i", "d", "d", "e", "n">>,
     <<"s", "e", "c", "u", "r", "i", "t", "y", " ", "c", "h", "e", "c", "k">>,
     <<"u", "n", "u", "s", "u", "a", "l", " ", "a", "c", "t", "i", "v", "i", "t", "y">>}

\* variant: the page source is matched as it is
page_source_blocked_CaseSensitive(page_source) ==
    \E indicator \in indicator_chars : IsSubstring(indicator, page_source)

\* is_blocked_or_captcha(page_source) for a page source that is not empty
page_source_blocked(page_source) ==
    LET page_source_lower == LowerStr(page_source)
    IN  \E indicator \in indicator_chars : IsSubstring(indicator, page_source_lower)

\* phrases a page may carry: the indicators, and texts that come close
Phrases ==
    {[name |-> "captcha", chars |-> <<"c", "a", "p", "t", "c", "h", "a">>],
     [name |-> "blocked", chars |-> <<"b", "l", "o", "c", "k", "e", "d">>],
     [name |-> "rate limit", chars |-> <<"r", "a", "t", "e", " ", "l", "i", "m", "i", "t">>],
     [name |-> "too many requests", chars |-> <<"t", "o", "o", " ", "m", "a", "n", "y", " ", "r", "e", "q", "u", "e", "s", "t", "s">>],
     [name |-> "access denied", chars |-> <<"a", "c", "c", "e", "s", "s", " ", "d", "e", "n", "i", "e", "d">>],
     [name |-> "forbidden", chars |-> <<"f", "o", "r", "b", "i", "d", "d", "e", "n">>],
     [name |-> "security check", chars |-> <<"s", "e", "c", "u", "r", "i", "t", "y", " ", "c", "h", "e", "c", "k">>],
     [name |-> "unusual activity", chars |-> <<"u", "n", "u", "s", "u", "a", "l", " ", "a", "c", "t", "i", "v", "i", "t", "y">>],
     [name |-> "", chars |-> <<>>],
     [name |-> "captch", chars |-> <<"c", "a", "p", "t", "c", "h">>],
     [name |-> "block", chars |-> <<"b", "l", "o", "c", "k">>],
     [name |-> "rate  limit", chars |-> <<"r", "a", "t", "e", " ", " ", "l", "i", "m", "i", "t">>],
     [name |-> "rate-limit", chars |-> <<"r", "a", "t", "e", "-", "l", "i", "m", "i", "t">>],
     [name |-> "too many", chars |-> <<"t", "o", "o", " ", "m", "a", "n", "y">>],
     [name |-> "accessdenied", chars |-> <<"a", "c", "c", "e", "s", "s", "d", "e", "n", "i", "e", "d">>],
     [name |-> "forbid", chars |-> <<"f", "o", "r", "b", "i", "d">>],
     [name |-> "security", chars |-> <<"s", "e", "c", "u", "r", "i", "t", "y">>],
     [name |-> "unusual", chars |-> <<"u", "n", "u", "s", "u", "a", "l">>]}

Casings == {"lower", "upper", "title", "mixed"}

\* text written in a letter case
Cased(s, casing) ==
    [i \in 1..Len(s) |->
        CASE casing = "upper" -> UpperChar(s[i])
          [] casing = "title" -> IF i = 1 \/ s[i - 1] = " " THEN UpperChar(s[i]) ELSE s[i]
          [] casing = "mixed" -> IF i % 2 = 0 THEN UpperChar(s[i]) ELSE s[i]
          [] OTHER -> s[i]]

\* the page sources is_blocked_or_captcha is applied to
BlockInputs ==
    {[fn |-> "is_blocked_or_captcha", phrase |-> p.name, casing |-> c,
      page_source |-> before \o Cased(p.chars, c) \o after] :
        p \in Phrases, c \in Casings,
        before \in {<<"<", "p", ">">>, <<"<", "p", ">", "u", "n">>}, after \in {<<>>, <<"s">>}}

\* every variable of a scraper and its controller
progVars == <<sessVars, pc, lastOp, req, navVars, scrapeVars, result, log, last, ctlVars, earlier, store>>

\* the function named in input returns value
Returns(value) ==
    /\ output = NoOutput
    /\ output' = [returned |-> TRUE, value |-> value]
    /\ UNCHANGED <<progVars, input, uiVars>>

\* listing nodes beside those the site serves during a search: a title that
\* is only the suffix ' job', a title with prefix and suffix, a blank title,
\* and two nodes with neither entity urn nor link that differ in markup only
CardJ == Card(<<"urn:li:", "job:", "2">>, <<"/jobs/view/", "2">>,
              <<" job">>, <<"Acme">>, <<"Remote">>, <<"<div j>">>)
CardK == Card(<<"urn:li:", "job:", "3">>, <<"/jobs/view/", "3">>,
              <<"View job details for ", "Engineer", " job">>, <<"\t", "Acme", " ">>,
              <<"Remote">>, <<"<div k>">>)
CardB == Card(<<"urn:li:", "job:", "4">>, <<"/jobs/view/", "4">>,
              <<" ", "\n">>, <<"Acme">>, <<"Remote">>, <<"<div b>">>)
CardE == Card(<<>>, <<>>, <<"Engineer">>, <<"Acme">>, <<"Remote">>, <<"<div e>">>)
CardF == Card(<<>>, <<>>, <<"Engineer">>, <<"Acme">>, <<"Remote">>, <<"<li f>">>)

ParserCards == Cards \cup {CardJ, CardK, CardB, CardE, CardF}

\* the listing nodes _extract_job_data is applied to
ExtractInputs == {[fn |-> "_extract_job_data", card |-> c] : c \in ParserCards}

ExtractJobData ==
    /\ input.fn = "_extract_job_data"
    /\ Returns(_extract_job_data(input.card))

RECURSIVE ExtractEach_Abort(_, _, _)
\* variant: a fault in one node ends the loop over the nodes
ExtractEach_Abort(cards, faults, i) ==
    IF i > Len(cards) \/ i \in faults THEN <<>>
    ELSE LET job_data == _extract_job_data(cards[i])
         IN  (IF job_data # NoJob THEN <<job_data>> ELSE <<>>)
             \o ExtractEach_Abort(cards, faults, i + 1)

RECURSIVE ExtractEach(_, _, _)
\* the loop of parse_job_listings from node i on; faults: the nodes during
\* whose extraction an exception is raised, which _extract_job_data catches
\* at lines 147-150 to return None
ExtractEach(cards, faults, i) ==
    IF i > Len(cards) THEN <<>>
    ELSE LET job_data == IF i \in faults THEN NoJob ELSE _extract_job_data(cards[i])
         IN  (IF job_data # NoJob THEN <<job_data>> ELSE <<>>)
             \o ExtractEach(cards, faults, i + 1)

\* the nodes of a page parse_job_listings is applied to, and the nodes whose
\* extraction raises
ParseInputs ==
    {[fn |-> "parse_job_listings", cards |-> c, faults |-> f] :
        c \in UNION {[1..k -> {CardA, CardD, CardG, CardJ, CardK}] : k \in 0..MaxCards},
        f \in SUBSET (1..MaxCards)}

ParseJobListings ==
    /\ input.fn = "parse_job_listings"
    /\ Returns(ExtractEach(input.cards, input.faults, 1))

(* posted dates *)
Digits == <<"0", "1", "2", "3", "4", "5", "6", "7", "8", "9">>
IsDigit(c) == \E k \in 1..10 : Digits[k] = c
DigitValue(c) == (CHOOSE k \in 1..10 : Digits[k] = c) - 1

RECURSIVE StripStr(_)
\* s.strip() on characters
StripStr(s) ==
    IF s = <<>> THEN s
    ELSE IF IsSpace(Head(s)) THEN StripStr(Tail(s))
    ELSE IF IsSpace(s[Len(s)]) THEN StripStr(SubSeq(s, 1, Len(s) - 1))
    ELSE s

HasDigit(s) == \E i \in 1..Len(s) : IsDigit(s[i])

RECURSIVE IntOf(_, _)
\* int() of the digits at the head of s, acc being the value read so far
IntOf(s, acc) ==
    IF s = <<>> \/ ~IsDigit(Head(s)) THEN acc
    ELSE IntOf(Tail(s), 10 * acc + DigitValue(Head(s)))

\* int(re.search(r'(\d+)', s).group(1)): the first run of digits in s
FirstNumber(s) ==
    LET first == CHOOSE i \in 1..Len(s) : IsDigit(s[i]) /\ \A j \in 1..(i - 1) : ~IsDigit(s[j])
    IN  IntOf(SubSeq(s, first, Len(s)), 0)

\* calendar days [y, m, d]
IsLeap(y) == y % 4 = 0 /\ (y % 100 # 0 \/ y % 400 = 0)
DaysInMonth(y, m) ==
    IF m = 2 THEN (IF IsLeap(y) THEN 29 ELSE 28)
    ELSE IF m \in {4, 6, 9, 11} THEN 30 ELSE 31
\* the last day of the month before the month of date
EndOfMonthBefore(date) ==
    IF date.m > 1
    THEN [y |-> date.y, m |-> date.m - 1, d |-> DaysInMonth(date.y, date.m - 1)]
    ELSE [y |-> date.y - 1, m |-> 12, d |-> 31]

RECURSIVE MinusDays(_, _)
\* date - timedelta(days=n)
MinusDays(date, n) ==
    IF n < date.d
    THEN [date EXCEPT !.d = @ - n]
    ELSE MinusDays(EndOfMonthBefore(date), n - date.d)

\* the decimal digits of k, at least width of them
RECURSIVE Decimal(_, _)
Decimal(k, width) ==
    IF k < 10 /\ width <= 1 THEN <<Digits[k + 1]>>
    ELSE Decimal(k \div 10, width - 1) \o <<Digits[(k % 10) + 1]>>

\* date.strftime("%Y-%m-%d")
Strftime(date) ==
    Decimal(date.y, 4) \o <<"-">> \o Decimal(date.m, 2) \o <<"-">> \o Decimal(date.d, 2)

\* variant: weeks counted as days
WeeksInDays_One(weeks_ago) == weeks_ago

\* timedelta(weeks=weeks_ago), in days
WeeksInDays(weeks_ago) == 7 * weeks_ago

\* _parse_posted_date, now being the day datetime.now() falls on
_parse_posted_date(raw_text, now) ==
    IF raw_text = <<>> THEN <<>>
    ELSE
    LET date_text == StripStr(LowerStr(raw_text))
        Has(word) == IsSubstring(word, date_text)
        plain == IF Has(<<"t", "o", "d", "a", "y">>) THEN Strftime(now)
                 ELSE IF Has(<<"y", "e", "s", "t", "e", "r", "d", "a", "y">>) THEN Strftime(MinusDays(now, 1))
                 ELSE date_text
    IN  IF Has(<<"a", "g", "o">>)
        THEN IF Has(<<"h", "o", "u", "r">>) \/ Has(<<"m", "i", "n", "u", "t", "e">>)
             THEN <<"T", "o", "d", "a", "y">>
             ELSE IF Has(<<"d", "a", "y">>)
             THEN IF HasDigit(date_text)
                  THEN Strftime(MinusDays(now, FirstNumber(date_text)))
                  ELSE plain
             ELSE IF Has(<<"w", "e", "e", "k">>)
             THEN IF HasDigit(date_text)
                  THEN Strftime(MinusDays(now, WeeksInDays(FirstNumber(date_text))))
                  ELSE plain
             ELSE IF Has(<<"m", "o", "n", "t", "h">>)
             THEN <<"1", "+", " ", "m", "o", "n", "t", "h", "s", " ", "a", "g", "o">>
             ELSE plain
        ELSE plain

\* the days a posted date is read on
ReferenceDays == {[y |-> 2024, m |-> 3, d |-> 1], [y |-> 2024, m |-> 1, d |-> 1],
                  [y |-> 2023, m |-> 7, d |-> 15]}

\* the numbers N of "N days ago"
Agos == (1..MaxAgo) \cup {10 * MaxAgo + 1}

Units == {[name |-> "day", chars |-> <<"d", "a", "y">>],
          [name |-> "days", chars |-> <<"d", "a", "y", "s">>],
          [name |-> "week", chars |-> <<"w", "e", "e", "k">>],
          [name |-> "weeks", chars |-> <<"w", "e", "e", "k", "s">>],
          [name |-> "month", chars |-> <<"m", "o", "n", "t", "h">>],
          [name |-> "months", chars |-> <<"m", "o", "n", "t", "h", "s">>],
          [name |-> "hour", chars |-> <<"h", "o", "u", "r">>],
          [name |-> "hours", chars |-> <<"h", "o", "u", "r", "s">>],
          [name |-> "minute", chars |-> <<"m", "i", "n", "u", "t", "e">>],
          [name |-> "minutes", chars |-> <<"m", "i", "n", "u", "t", "e", "s">>]}

OtherTexts == {<<"2", "0", "2", "4", "-", "0", "1", "-", "1", "5">>,
               <<"J", "a", "n", " ", "5">>,
               <<"a", " ", "d", "a", "y", " ", "a", "g", "o">>,
               <<"J", "u", "s", "t", " ", "n", "o", "w">>,
               <<" ", "R", "e", "p", "o", "s", "t", "e", "d", " ">>,
               <<"T", "o", "d", "a", "y">>,
               <<"Y", "e", "s", "t", "e", "r", "d", "a", "y">>,
               <<"t", "o", "d", "a", "y">>,
               <<"y", "e", "s", "t", "e", "r", "d", "a", "y">>}

\* the texts _parse_posted_date is applied to
DateInputs ==
    {[fn |-> "_parse_posted_date", form |-> "relative", n |-> n, unit |-> u.name,
      date_text |-> Cased(Decimal(n, 1) \o <<" ">> \o u.chars \o <<" ", "a", "g", "o">>, c), now |-> T] :
        n \in Agos, u \in Units, c \in {"lower", "title"}, T \in ReferenceDays}
    \cup {[fn |-> "_parse_posted_date", form |-> "other", n |-> 0, unit |-> "none",
           date_text |-> x, now |-> T] : x \in OtherTexts, T \in ReferenceDays}

ParsePostedDate ==
    /\ input.fn = "_parse_posted_date"
    /\ Returns(_parse_posted_date(input.date_text, input.now))

(* listing nodes of a document *)
\* the selectors tried in turn
selectors == <<"div[data-entity-urn*=job]", ".job-search-card", ".jobs-search__results-list li",
               ".scaffold-layout__list-container li", ".jobs-search-results-list__list-item",
               ".job-result-card", "li[data-occludable-job-id]", ".base-search-card",
               "article.job-search-card">>

\* the most nodes the broader search returns
HeuristicLimit == 20

\* variant: the broader search returns all it found
FirstCards_All(cards) == cards

\* cards[:20]
FirstCards(cards) ==
    SubSeq(cards, 1, IF Len(cards) < HeuristicLimit THEN Len(cards) ELSE HeuristicLimit)

\* _find_job_cards on the elements of the document in document order. An
\* element is [pos, tag, matches, class_match, link, time_text, heading]:
\* its place, its tag, the selectors it matches, what the class filter of
\* find_all answers for it, and whether it holds a link with href, a text
\* with one of 'ago', 'day', 'week', 'month', a heading h3/h4/h5.
find_job_cards(soup) ==
    LET select(k) == SelectSeq(soup, LAMBDA element : selectors[k] \in element.matches)
        found == {k \in 1..Len(selectors) : select(k) # <<>>}
        job_elements == SelectSeq(soup, LAMBDA element :
                            element.tag \in {"div", "li", "article"} /\ element.class_match)
        potential_cards == SelectSeq(job_elements, LAMBDA element :
                               element.link /\ (element.time_text \/ element.heading))
    IN  IF found # {}
        THEN select(CHOOSE k \in found : \A j \in found : k <= j)
        ELSE FirstCards(potential_cards)

\* the kinds of element the documents are made of
Element(pos, kind) ==
    [pos |-> pos,
     tag |-> CASE kind = "span" -> "span" [] kind \in {"dated", "item"} -> "li" [] OTHER -> "div",
     matches |-> CASE kind = "card" -> {".job-search-card", ".base-search-card"}
                   [] kind = "item" -> {".jobs-search__results-list li"}
                   [] OTHER -> {},
     class_match |-> kind # "unclassed",
     link |-> kind # "nolink",
     time_text |-> kind \in {"dated", "span", "unclassed", "item"},
     heading |-> kind \in {"heading", "nolink", "unclassed", "card"}]

\* the kinds of the elements of a document, repeated in turn
Layouts == {<<"heading">>,
            <<"dated", "heading">>,
            <<"nolink", "heading", "dated", "heading", "dated", "heading", "dated", "heading",
              "dated", "heading", "dated">>,
            <<"heading", "dated", "bare", "unclassed", "span">>,
            <<"nolink", "bare", "unclassed", "span">>,
            <<"heading", "card", "item">>,
            <<"item", "heading", "card", "dated">>}

Document(n, layout) == [i \in 1..n |-> Element(i, layout[((i - 1) % Len(layout)) + 1])]

\* the documents _find_job_cards is applied to
SoupInputs ==
    {[fn |-> "_find_job_cards", soup |-> Document(n, layout)] : n \in 0..MaxNodes, layout \in Layouts}

FindJobCards ==
    /\ input.fn = "_find_job_cards"
    /\ Returns(find_job_cards(input.soup))

\* the requests and pages _input_search_parameters is applied to
FormInputs ==
    {[fn |-> "_input_search_parameters", r |-> r, f |-> f] : r \in SearchParams, f \in FormFacts}

InputSearchParameters ==
    /\ input.fn = "_input_search_parameters"
    /\ Returns(input_search_parameters(input.r, input.f))

\* the pages _navigate_to_next_page is applied to
NextInputs == {[fn |-> "_navigate_to_next_page", f |-> f] : f \in NextFacts}

NavigateToNextPage ==
    /\ input.fn = "_navigate_to_next_page"
    /\ Returns(navigate_to_next_page(input.f))

\* the nodes of two pages in a row: with and without a link, with the same
\* and with different ids
DedupInputs ==
    {[fn |-> "new_jobs", first |-> a, second |-> b] :
        a \in UNION {[1..k -> {CardA, CardE}] : k \in 0..1},
        b \in UNION {[1..k -> {CardA, CardD, CardE, CardF}] : k \in 0..2}}

\* lines 434-451 on the second of two pages: the records kept from the first
\* and the new_jobs of the second
NewJobs ==
    /\ input.fn = "new_jobs"
    /\ LET all_jobs_1 == Dedup(ExtractAll(input.first), {}, {})
       IN  Returns([all_jobs |-> all_jobs_1,
                    new_jobs |-> Dedup(ExtractAll(input.second), Ids(all_jobs_1),
                                       Urls(all_jobs_1))])

IsBlockedOrCaptchaOn ==
    /\ input.fn = "is_blocked_or_captcha"
    /\ Returns(page_source_blocked(input.page_source))

PureInputs ==
    BlockInputs \cup ExtractInputs \cup ParseInputs \cup DateInputs \cup SoupInputs
    \cup FormInputs \cup NextInputs \cup DedupInputs

\* a function is about to be applied to an argument
PureInit ==
    /\ Constructed
    /\ WindowConstructed
    /\ input \in PureInputs
    /\ output = NoOutput

PureNext ==
    \/ IsBlockedOrCaptchaOn
    \/ ExtractJobData
    \/ ParseJobListings
    \/ ParsePostedDate
    \/ FindJobCards
    \/ InputSearchParameters
    \/ NavigateToNextPage
    \/ NewJobs

\* the functions without side effects, each applied once to one argument
PureSpec == PureInit /\ [][PureNext]_vars

(* ------------------- the main window and its workers ------------------ *)
\* what the call of search_jobs in ScrapingWorker.run comes to: an
\* exception, or a list of records, returned at the end of the pages
\* ("pages_done") or on a failed navigation, on blocking detected or from
\* an except clause ("aborted")
SearchOutcomes ==
    {[raised |-> TRUE, jobs |-> <<>>, ended |-> "raised"]}
    \cup {[raised |-> FALSE, jobs |-> ExtractAll(cards), ended |-> e] :
              cards \in {<<>>, <<CardA>>, <<CardA, CardK>>},
              e \in {"pages_done", "aborted"}}

\* the session of a scraper just constructed: no browser handle
NoSession == [driver |-> None, dead |-> FALSE]

\* a worker as start_scraping creates and starts it
NewWorker == [pc |-> "init", jobs |-> <<>>, emitted |-> <<>>, sess |-> NoSession,
              ended |-> "none"]

Signal(w, name, arg) == [worker |-> w, signal |-> name, arg |-> arg]

\* signal.emit(arg) in the thread of worker w: the slot is in the main
\* thread, the call is queued. progress_update, progress_percentage and
\* their slots, which set the progress bar and the status bar, are left out.
Emit(w, name, arg, to) ==
    /\ workers' = [workers EXCEPT ![w] = [@ EXCEPT !.emitted = Append(@, Signal(w, name, arg)),
                                                   !.pc = to]]
    /\ events' = Append(events, Signal(w, name, arg))
    /\ UNCHANGED ui

\* variant: an exception ends the run without a signal
AfterRaise_Silent == "finally"

\* where run continues after an exception in the try block
AfterRaise == "except"

\* variant: an aborted search is reported as one without records
AfterSearch_ByEnd(outcome) ==
    IF outcome.raised THEN AfterRaise
    ELSE IF outcome.jobs # <<>> /\ outcome.ended = "pages_done" THEN "found" ELSE "none"

\* variant: the records are not handed over
AfterSearch_NoFound(outcome) ==
    IF outcome.raised THEN AfterRaise
    ELSE IF outcome.jobs # <<>> THEN "success" ELSE "none"

\* where run continues after the call of search_jobs
AfterSearch(outcome) ==
    IF outcome.raised THEN AfterRaise
    ELSE IF outcome.jobs # <<>> THEN "found" ELSE "none"

\* variant: the search button stays enabled
start_scraping_Enabled(w) ==
    [ui EXCEPT !.table = <<>>, !.scraping_worker = w, !.status = "searching"]

\* start_scraping, w being the worker it creates
start_scraping(w) ==
    [ui EXCEPT !.search_button = FALSE, !.table = <<>>, !.scraping_worker = w,
               !.status = "searching"]

\* a click on the search button; a disabled button and a window under a
\* message box take no click
HandleSearch ==
    /\ ui.search_button
    /\ ui.boxes = 0
    /\ \E filled \in BOOLEAN :
        IF filled
        THEN /\ Len(workers) < MaxRuns
             /\ ui' = start_scraping(Len(workers) + 1)
             /\ workers' = Append(workers, NewWorker)
        ELSE /\ ui' = [ui EXCEPT !.status = "enter"]
             /\ UNCHANGED workers
    /\ UNCHANGED <<events, progVars, input, output>>

\* run: LinkedInScraper(headless=True)
RunConstruct(w) ==
    /\ workers[w].pc = "init"
    /\ \E raises \in BOOLEAN :
        workers' = [workers EXCEPT ![w].pc = IF raises THEN AfterRaise ELSE "search"]
    /\ UNCHANGED <<ui, events, progVars, input, output>>

\* run: self.scraper.search_jobs(...) is called and asks for the browser,
\* which starts or fails to
RunSearch(w) ==
    /\ workers[w].pc = "search"
    /\ \E g \in get_driver(workers[w].sess) :
        workers' = [workers EXCEPT ![w] = [@ EXCEPT !.sess = g.s, !.pc = "searching"]]
    /\ UNCHANGED <<ui, events, progVars, input, output>>

\* run: search_jobs comes to its end, through its finally clause, and
\* jobs is assigned; without a browser there are no records
RunSearchEnd(w) ==
    /\ workers[w].pc = "searching"
    /\ \E outcome \in SearchOutcomes, quitRaises \in BOOLEAN :
        /\ workers[w].sess.driver = None => outcome.jobs = <<>> /\ outcome.ended # "pages_done"
        /\ workers' = [workers EXCEPT ![w] =
                          [@ EXCEPT !.jobs = outcome.jobs,
                                    !.ended = outcome.ended,
                                    !.sess = cleanup(@, quitRaises),
                                    !.pc = AfterSearch(outcome)]]
    /\ UNCHANGED <<ui, events, progVars, input, output>>

\* run: self.jobs_found.emit(jobs)
RunFound(w) ==
    /\ workers[w].pc = "found"
    /\ Emit(w, "jobs_found", workers[w].jobs, "success")
    /\ UNCHANGED <<progVars, input, output>>

\* run: self.scraping_finished.emit(True, f"Successfully found {len(jobs)} jobs")
RunSuccess(w) ==
    /\ workers[w].pc = "success"
    /\ Emit(w, "scraping_finished", [success |-> TRUE, found |-> Len(workers[w].jobs),
                                    message |-> "Successfully found"], "finally")
    /\ UNCHANGED <<progVars, input, output>>

\* run: self.scraping_finished.emit(False, "No jobs found ...")
RunNone(w) ==
    /\ workers[w].pc = "none"
    /\ Emit(w, "scraping_finished", [success |-> FALSE, found |-> 0,
                                    message |-> "No jobs found"], "finally")
    /\ UNCHANGED <<progVars, input, output>>

\* run, except clause: self.scraping_finished.emit(False, error_msg)
RunExcept(w) ==
    /\ workers[w].pc = "except"
    /\ Emit(w, "scraping_finished", [success |-> FALSE, found |-> 0,
                                    message |-> "Scraping failed"], "finally")
    /\ UNCHANGED <<progVars, input, output>>

\* run, finally clause, and the end of the thread
RunFinally(w) ==
    /\ workers[w].pc = "finally"
    /\ \E quitRaises \in BOOLEAN :
        workers' = [workers EXCEPT ![w] = [@ EXCEPT !.sess = cleanup(@, quitRaises),
                                                    !.pc = "ended"]]
    /\ UNCHANGED <<ui, events, progVars, input, output>>

RunStep(w) ==
    \/ RunConstruct(w)
    \/ RunSearch(w)
    \/ RunSearchEnd(w)
    \/ RunFound(w)
    \/ RunSuccess(w)
    \/ RunNone(w)
    \/ RunExcept(w)
    \/ RunFinally(w)

\* the slot handle_jobs_found on the signal at the head of the queue
HandleJobsFound ==
    /\ events # <<>>
    /\ Head(events).signal = "jobs_found"
    /\ ui' = IF Head(events).arg # <<>>
             THEN [ui EXCEPT !.table = Head(events).arg, !.status = "found"]
             ELSE ui
    /\ events' = Tail(events)
    /\ UNCHANGED <<workers, progVars, input, output>>

\* "0 jobs" in message or "No jobs found" in message, for the message
\* f"Successfully found {found} jobs"
SaysNoJobs(found) == found % 10 = 0

\* the slot handle_scraping_finished on the signal at the head of the queue,
\* up to its message box if it opens one, to its end if not
HandleScrapingFinished ==
    /\ events # <<>>
    /\ Head(events).signal = "scraping_finished"
    /\ LET arg == Head(events).arg
           shown == [ui EXCEPT !.search_button = TRUE, !.status = "finished",
                               !.handled = Append(@, Head(events).worker)]
       IN  ui' = IF ~arg.success \/ SaysNoJobs(arg.found)
                 THEN [shown EXCEPT !.boxes = @ + 1]
                 ELSE [shown EXCEPT !.scraping_worker = None]
    /\ events' = Tail(events)
    /\ UNCHANGED <<workers, progVars, input, output>>

\* the message box is closed; handle_scraping_finished goes on to its end
CloseBox ==
    /\ ui.boxes > 0
    /\ ui' = [ui EXCEPT !.boxes = @ - 1, !.scraping_worker = None]
    /\ UNCHANGED <<workers, events, progVars, input, output>>

UiNext ==
    \/ HandleSearch
    \/ \E w \in 1..Len(workers) : RunConstruct(w)
    \/ \E w \in 1..Len(workers) : RunSearch(w)
    \/ \E w \in 1..Len(workers) : RunSearchEnd(w)
    \/ \E w \in 1..Len(workers) : RunFound(w)
    \/ \E w \in 1..Len(workers) : RunSuccess(w)
    \/ \E w \in 1..Len(workers) : RunNone(w)
    \/ \E w \in 1..Len(workers) : RunExcept(w)
    \/ \E w \in 1..Len(workers) : RunFinally(w)
    \/ HandleJobsFound
    \/ HandleScrapingFinished
    \/ CloseBox

\* the window, its user and the workers it starts
UiSpec == Init /\ [][UiNext]_vars

\* a started thread runs on, and the event loop calls the slots of the
\* signals queued
UiFairSpec ==
    /\ UiSpec
    /\ \A w \in 1..MaxRuns : WF_vars(w \in 1..Len(workers) /\ RunStep(w))
    /\ WF_vars(HandleJobsFound \/ HandleScrapingFinished)

(* ---------------------------- the record store ------------------------ *)
status_options == {"Not Reviewed", "Interested", "Applied", "Not Interested"}

\* ids: the id a mapping carries, or f"job_{n}_{t}" of add_job
NoId == [name |-> "", n |-> 0, t |-> 0]
GivenId(name) == [name |-> name, n |-> 0, t |-> 0]
GeneratedId(n, t) == [name |-> "job", n |-> n, t |-> t]

\* the mappings handed to the store: with or without an id, with a status
\* of the four, with another status, or without one
Mappings ==
    {[id |-> id, status |-> status] :
        id \in {NoId, GivenId("a"), GivenId("b")},
        status \in {"absent", "Not Reviewed", "Applied", "Rejected"}}

\* job_data after the two setdefault calls, as copied into jobs_data under
\* job_id; changed records whether the status has changed since
Stored(job_data, job_id) ==
    [id |-> job_id,
     status |-> IF job_data.status = "absent" THEN "Not Reviewed" ELSE job_data.status,
     scraped_at |-> store.now, has_status_updated_at |-> FALSE, changed |-> FALSE]

Put(jobs_data, job_id, job) ==
    [k \in DOMAIN jobs_data \cup {job_id} |-> IF k = job_id THEN job ELSE jobs_data[k]]

Without_key(jobs_data, job_id) == [k \in DOMAIN jobs_data \ {job_id} |-> jobs_data[k]]

\* the id add_job gives a mapping without one
generated_job_id(jobs_data, now) == GeneratedId(Cardinality(DOMAIN jobs_data) + 1, now)

Called_store(jobs_data, call) ==
    /\ store' = [jobs_data |-> jobs_data, now |-> store.now, calls |-> store.calls + 1,
                 call |-> call]
    /\ UNCHANGED <<sessVars, pc, lastOp, req, navVars, scrapeVars, result, log, last,
                   ctlVars, earlier, input, output, uiVars>>

\* add_job(job_data)
AddJob ==
    /\ store.calls < MaxStoreCalls
    /\ \E job_data \in Mappings :
        LET job_id == IF job_data.id = NoId
                      THEN generated_job_id(store.jobs_data, store.now)
                      ELSE job_data.id
        IN  Called_store(Put(store.jobs_data, job_id, Stored(job_data, job_id)),
                         [op |-> "add_job", id |-> job_id,
                          generated |-> job_data.id = NoId,
                          existed |-> job_id \in DOMAIN store.jobs_data])

RECURSIVE add_jobs(_, _)
\* the loop of add_jobs: a mapping without id is passed over
add_jobs(jobs_data, jobs_list) ==
    IF jobs_list = <<>> THEN jobs_data
    ELSE LET job_data == Head(jobs_list)
         IN  add_jobs(IF job_data.id # NoId
                      THEN Put(jobs_data, job_data.id, Stored(job_data, job_data.id))
                      ELSE jobs_data,
                      Tail(jobs_list))

\* add_jobs(jobs_list)
AddJobs ==
    /\ store.calls < MaxStoreCalls
    /\ \E first \in Mappings :
        \E jobs_list \in {<<first>>, <<first, [id |-> GivenId("b"), status |-> "absent"]>>} :
            Called_store(add_jobs(store.jobs_data, jobs_list), [op |-> "add_jobs"])

\* update_job_status(job_id, new_status)
UpdateJobStatus ==
    /\ store.calls < MaxStoreCalls
    /\ \E job_id \in DOMAIN store.jobs_data \cup {GivenId("a")},
       new_status \in {"Not Reviewed", "Interested", "Rejected"} :
        IF job_id \in DOMAIN store.jobs_data /\ new_status \in status_options
        THEN Called_store([store.jobs_data EXCEPT ![job_id] =
                               [@ EXCEPT !.status = new_status,
                                         !.has_status_updated_at = TRUE,
                                         !.changed = @ \/ store.jobs_data[job_id].status # new_status]],
                          [op |-> "update_job_status", id |-> job_id, returned |-> TRUE])
        ELSE Called_store(store.jobs_data,
                          [op |-> "update_job_status", id |-> job_id, returned |-> FALSE])

\* remove_job(job_id)
RemoveJob ==
    /\ store.calls < MaxStoreCalls
    /\ \E job_id \in DOMAIN store.jobs_data \cup {GivenId("a")} :
        IF job_id \in DOMAIN store.jobs_data
        THEN Called_store(Without_key(store.jobs_data, job_id),
                          [op |-> "remove_job", id |-> job_id, returned |-> TRUE])
        ELSE Called_store(store.jobs_data,
                          [op |-> "remove_job", id |-> job_id, returned |-> FALSE])

\* clear_data()
ClearData ==
    /\ store.calls < MaxStoreCalls
    /\ store.jobs_data # <<>>
    /\ Called_store(<<>>, [op |-> "clear_data"])

\* a second of the clock passes between two calls
Tick ==
    /\ store.now < MaxClock
    /\ store' = [store EXCEPT !.now = @ + 1]
    /\ UNCHANGED <<sessVars, pc, lastOp, req, navVars, scrapeVars, result, log, last,
                   ctlVars, earlier, input, output, uiVars>>

StoreNext ==
    \/ AddJob
    \/ AddJobs
    \/ UpdateJobStatus
    \/ RemoveJob
    \/ ClearData
    \/ Tick

\* the calls made on the data manager of a window
StoreSpec == Init /\ [][StoreNext]_vars

(* ------------------------------ properties ---------------------------- *)
\* no two records of jobs share an id or a url
NoRepeat(jobs) ==
    \A i, j \in 1..Len(jobs) :
        i # j => jobs[i].id # jobs[j].id /\ jobs[i].url # jobs[j].url

RECURSIVE Flatten(_)
\* the records of a sequence of pages, in page order
Flatten(pages) == IF pages = <<>> THEN <<>> ELSE Head(pages) \o Flatten(Tail(pages))

RECURSIVE Accumulated(_, _)
\* what the loop has accumulated after the given pages, starting from acc
Accumulated(pages, acc) ==
    IF pages = <<>> THEN acc
    ELSE Accumulated(Tail(pages), acc \o Dedup(Head(pages), Ids(acc), Urls(acc)))

\* the events of the latest step
LastEvents == {last[i].ev : i \in 1..Len(last)}

Returned == pc = "done" /\ lastOp = "search"

AllPhases == <<"nav", "landing", "input", "filters">>

\* C1: whenever search_jobs has returned, with records or after an early
\* abort, cleanup ran before the return and the controller holds no handle.
C1_TeardownBeforeReturn ==
    Returned =>
        /\ driver = None
        /\ Len(last) >= 2
        /\ last[Len(last) - 1].ev = "cleanup"
        /\ last[Len(last)].ev = "return"

\* C1 case: a search that opened a browser, scraped a page and returned records
C1_Witness ==
    Returned /\ result # <<>> /\ driver = None /\ "loop_end" \in LastEvents

\* C2: the sequence the pagination loop builds and returns never holds two
\* records with the same id or the same url, and no record has an empty id.
C2_UniqueRecords ==
    \A jobs \in {all_jobs, scraped_jobs, result} :
        /\ NoRepeat(jobs)
        /\ \A i \in 1..Len(jobs) : jobs[i].id # <<>>

\* C2 case: two records returned although the pages held three
C2_Witness ==
    Returned /\ Len(result) = 2 /\ Len(Flatten(parsed)) >= 3

\* like-for-like repetition: two records have the same id exactly when they
\* have the same url
PairedIds(jobs) ==
    \A i, j \in 1..Len(jobs) :
        (jobs[i].id = jobs[j].id) <=> (jobs[i].url = jobs[j].url)

\* the ids and urls of the result are those of the parsed pages, none repeated
ExactUnion ==
    /\ Ids(result) = Ids(Flatten(parsed))
    /\ Urls(result) = Urls(Flatten(parsed))
    /\ NoRepeat(result)

\* C3 as stated: after two parsed pages, each without repetition of its own,
\* of which the second repeats one identifier and one URL of the first, the
\* ids and urls of the result are exactly those of the two pages.
C3_UnionAsStated ==
    (/\ Returned /\ Len(parsed) = 2
     /\ NoRepeat(parsed[1]) /\ NoRepeat(parsed[2])
     /\ Cardinality({i \in 1..Len(parsed[2]) : parsed[2][i].id \in Ids(parsed[1])}) = 1
     /\ Cardinality({i \in 1..Len(parsed[2]) : parsed[2][i].url \in Urls(parsed[1])}) = 1)
    => ExactUnion

\* C3 amended: after two parsed pages in which identifiers and URLs repeat
\* together (two records have the same id exactly when they have the same
\* url), the ids and urls of the result are exactly those of the two pages,
\* none repeated; in every case they are among those of the two pages.
C3_UnionWhenPaired ==
    (Returned /\ Len(parsed) = 2) =>
        /\ Ids(result) \subseteq Ids(Flatten(parsed))
        /\ Urls(result) \subseteq Urls(Flatten(parsed))
        /\ NoRepeat(result)
        /\ (PairedIds(Flatten(parsed)) => ExactUnion)

\* C3 case: page 2 repeats a whole record of page 1 and adds a new one
C3_Witness ==
    /\ Returned /\ Len(parsed) = 2
    /\ PairedIds(Flatten(parsed))
    /\ \E i \in 1..Len(parsed[2]) : \E j \in 1..Len(parsed[1]) :
           parsed[2][i] = parsed[1][j]
    /\ Len(result) > Len(parsed[1])

\* two pages were parsed under max_pages = 2, neither repeating a record
\* of its own
TwoPageRun ==
    /\ Returned /\ req.max_pages = 2 /\ Len(parsed) = 2
    /\ NoRepeat(parsed[1]) /\ NoRepeat(parsed[2])

NotReviewed(jobs) == \A i \in 1..Len(jobs) : jobs[i].status = <<"Not Reviewed">>

\* C4 as stated: with d the number of page-2 records that duplicate a page-1
\* identifier, the result is page 1 followed by the other page-2 records,
\* m + k - d records in all, each with status Not Reviewed.
C4_CountAsStated ==
    TwoPageRun =>
        LET fresh == SelectSeq(parsed[2], LAMBDA job : job.id \notin Ids(parsed[1]))
            d == Len(parsed[2]) - Len(fresh)
        IN  /\ Len(result) = Len(parsed[1]) + Len(parsed[2]) - d
            /\ result = parsed[1] \o fresh
            /\ NotReviewed(result)

\* C4 amended: with d the number of page-2 records that duplicate a page-1
\* identifier or a page-1 URL, and page 2 free of repetition of its own, the
\* result is page 1 followed by the other page-2 records, m + k - d records
\* in all, each with status Not Reviewed.
C4_CountByIdOrUrl ==
    TwoPageRun =>
        LET fresh == SelectSeq(parsed[2], LAMBDA job : /\ job.id \notin Ids(parsed[1])
                                                       /\ job.url \notin Urls(parsed[1]))
            d == Len(parsed[2]) - Len(fresh)
        IN  /\ Len(result) = Len(parsed[1]) + Len(parsed[2]) - d
            /\ result = parsed[1] \o fresh
            /\ NotReviewed(result)

\* C4 case: m = 1, k = 2, d = 1
C4_Witness ==
    /\ TwoPageRun
    /\ Len(parsed[1]) = 1 /\ Len(parsed[2]) = 2 /\ Len(result) = 2
    /\ \E i \in 1..2 : parsed[2][i].id \in Ids(parsed[1])
                       \/ parsed[2][i].url \in Urls(parsed[1])

\* C5: the step that detects blocking on page k ends the run: it consists of
\* the fetch of page k, the detection, cleanup and the return; k - 1 pages
\* have been parsed, and the result is what those pages accumulated.
C5_BlockedStopsLoop ==
    \A i \in 1..Len(last) :
        last[i].ev = "blocked" =>
            /\ pc = "done"
            /\ last = <<Ev("fetch", last[i].arg), Ev("blocked", last[i].arg),
                        Ev("cleanup", 0), Ev("return", Len(result))>>
            /\ Len(parsed) = last[i].arg - 1
            /\ result = all_jobs
            /\ result = Accumulated(parsed, <<>>)

\* C5 case: blocking detected on a later page, records already accumulated
C5_Witness ==
    /\ Returned /\ result # <<>>
    /\ \E i \in 1..Len(last) : last[i].ev = "blocked" /\ last[i].arg >= 2

\* the two pages parsed last yielded no record and the counter stands at two
TwoEmptyPages ==
    /\ lastOp = "search"
    /\ consecutive_empty_pages >= max_empty_pages
    /\ Len(parsed) >= 2
    /\ parsed[Len(parsed)] = <<>> /\ parsed[Len(parsed) - 1] = <<>>

\* C6 as stated: once two consecutive pages have yielded no record, no step
\* navigates to a next page, applies the delay between pages or fetches.
C6_NoStepAfterTwoEmpty ==
    TwoEmptyPages =>
        /\ LastEvents \cap {"next_ok", "next_fail", "page_delay"} = {}
        /\ ("fetch" \in LastEvents => "parse" \in LastEvents)

\* C7: the numbers of parsed documents and of next-page navigations stay
\* within max_pages and max_pages - 1 (0 when max_pages <= 1), and every call
\* returns: a pagination loop that was entered is left, as no step follows
\* the return.
C7_LoopTerminatesWithinBounds ==
    /\ [](/\ Len(parsed) <= req.max_pages
          /\ navs <= (IF req.max_pages <= 1 THEN 0 ELSE req.max_pages - 1))
    /\ <>(pc = "done")

\* C7 case: a run that used up its whole allowance
C7_Witness ==
    /\ Returned /\ req.max_pages >= 2
    /\ Len(parsed) = req.max_pages /\ navs = req.max_pages - 1

\* C8: pages are fetched only after navigation, landing check, parameter
\* entry and filters, in that order; a search that returns without all of
\* them returns nothing and has parsed nothing; and a step in which a filter
\* could not be applied leads into the scraping loop.
C8_PhaseOrder ==
    /\ (pc \in {"loop", "next_empty", "next", "delay"} \/ parsed # <<>>
        \/ "fetch" \in LastEvents)
          => log = AllPhases
    /\ (Returned /\ log # AllPhases) => (result = <<>> /\ parsed = <<>>)
    /\ (LastEvents \cap {"filter_fail", "filter_error"} # {})
          => (pc = "loop" /\ log = AllPhases)
    /\ \A n \in 1..Len(log) : log[n] = AllPhases[n]

\* C8 case: the loop is entered although a filter could not be applied
C8_Witness ==
    pc = "loop" /\ "filter_fail" \in LastEvents /\ current_page = 1

\* C9: attempt a is preceded by a failed attempts and at most a loads; the
\* call returns True on an attempt that ends with a completed load, and
\* False only when attempt max_retries has failed; it returns one of the two.
C9_RetryBound ==
    /\ attempt <= nav_max
    /\ loads <= nav_max + 1
    /\ (nav_result = "none" => loads <= attempt)
    /\ (nav_result = "true" =>
           /\ navlog # <<>> /\ navlog[Len(navlog)].ev = "load"
           /\ loads <= attempt + 1)
    /\ (nav_result = "false" =>
           /\ attempt = nav_max
           /\ navlog # <<>> /\ navlog[Len(navlog)].ev # "load")
    /\ (pc = "nav" /\ attempt > 0 =>
           navlog # <<>> /\ navlog[Len(navlog)].ev # "load")
    /\ (pc = "done" /\ lastOp = "navigate" => nav_result \in {"true", "false"})

\* C9 case: False after max_retries + 1 loads
C9_Witness ==
    /\ nav_result = "false" /\ nav_max = MAX_RETRY_ATTEMPTS
    /\ loads = nav_max + 1

\* C10 as stated: when an attempt failed with an invalid session and another
\* attempt follows, the invalidated handle is gone and the counters are reset.
C10_RefreshedBeforeRetry ==
    (pc = "nav" /\ prev_invalid) =>
        (~dead /\ request_count = 0 /\ ~last_request_set)

\* the number of the attempt whose events navlog holds
LoggedAttempt == IF pc = "nav" /\ nav_result = "none" THEN attempt - 1 ELSE attempt

\* C11: attempt 0 starts with the ordinary delay and has no backoff wait;
\* retry a starts with a wait of 2^a times the base delay, which is 2, 4 and
\* 8 times the base delay (6, 12 and 24 seconds) for retries 1, 2 and 3.
C11_BackoffDoubles ==
    navlog # <<>> =>
        LET a == LoggedAttempt
            waits == {i \in 1..Len(navlog) : navlog[i].ev = "backoff"}
        IN  IF a = 0
            THEN navlog[1] = Ev("delay", 0) /\ waits = {}
            ELSE /\ waits = {1}
                 /\ navlog[1].arg = (2 ^ a) * DEFAULT_REQUEST_DELAY
                 /\ (a = 1 => navlog[1].arg = 2 * DEFAULT_REQUEST_DELAY)
                 /\ (a = 2 => navlog[1].arg = 4 * DEFAULT_REQUEST_DELAY)
                 /\ (a = 3 => navlog[1].arg = 8 * DEFAULT_REQUEST_DELAY)
                 /\ \A i \in 1..Len(navlog) : navlog[i].ev # "delay"

\* C11 case: the third retry of the default three, after a wait of 24 seconds
C11_Witness ==
    /\ nav_max = MAX_RETRY_ATTEMPTS /\ LoggedAttempt = 3
    /\ navlog # <<>> /\ navlog[1] = Ev("backoff", 24)

\* the events named ev among evs
EventsNamed(evs, ev) == {i \in 1..Len(evs) : evs[i].ev = ev}

\* C12 (as stated): no page load is issued on a session whose request
\* counter has reached max_requests_per_session or that is older than one
\* hour, neither by navigate_to_url nor by an attempt of
\* navigate_to_url_with_retry.
C12_NoLoadOnStaleSession ==
    /\ lastOp = "navigate_to_url" => EventsNamed(last, "stale_load") = {}
    /\ EventsNamed(navlog, "stale") # {} => EventsNamed(navlog, "load") = {}

\* C13 (as stated): after every _refresh_session the request counter is 0,
\* the last-request timestamp is cleared, the session start was set anew and
\* the old handle is no longer held, whether or not quit() on the old handle
\* succeeded.
C13_RefreshResetsSession ==
    lastOp = "_refresh_session" =>
        /\ request_count = 0
        /\ ~last_request_set
        /\ ~dead
        /\ last = <<Ev("reset", 1)>>

\* C14 (as stated): no direct call of an operation of the controller lets a
\* fault reach its caller; each returns a value.
C14_NoFaultPropagates == ret # "raised"

\* C15 (as stated): the handle get_driver returns belongs to a live session;
\* a held handle whose session is invalid is replaced by a fresh one.
C15_GetDriverLive ==
    (lastOp = "get_driver" /\ ret = "handle") => (driver # None /\ ~dead)

\* C16: cleanup is idempotent and safe without a handle: after a call no
\* handle is held, also when quit() raised; a call made without a handle,
\* and so a call that directly follows another cleanup, attempts no quit()
\* and leaves the controller as it found it.
C16_CleanupIdempotent ==
    lastOp = "cleanup" =>
        /\ driver = None
        /\ ret = "none"
        /\ pre.driver = None => (Sess = pre /\ last = <<>>)
        /\ repeated => (pre.driver = None /\ Sess = pre
                        /\ EventsNamed(last, "quit") = {})

\* a cleanup directly follows another, on a controller that counted requests
C16_Witness ==
    /\ lastOp = "cleanup"
    /\ repeated
    /\ request_count > 0
    /\ driver = None
    /\ last = <<>>

\* the argument of the event named ev of the latest call
Arg(ev) == last[CHOOSE i \in EventsNamed(last, ev) : TRUE].arg

\* C17 (as stated): the delay apply_request_delay computes is the drawn value
\* times 1 up to 20 counted requests, times 1.5 above 20 and up to 50, times
\* 2.0 above 50, and it never exceeds 2.0 * MAX_REQUEST_DELAY (half seconds).
C17_DelayMultiplier ==
    lastOp = "apply_request_delay" =>
        LET count == pre.request_count
            drawn == 2 * Arg("drawn")
        IN  /\ Arg("drawn") \in DEFAULT_REQUEST_DELAY..MAX_REQUEST_DELAY
            /\ count <= 20 => Arg("computed") = drawn
            /\ (count > 20 /\ count <= 50) => 2 * Arg("computed") = 3 * drawn
            /\ count > 50 => Arg("computed") = 2 * drawn
            /\ Arg("computed") <= 2 * (2 * MAX_REQUEST_DELAY)

\* C18: when apply_request_delay is called on a session that has completed
\* a request and was not reset since, it completes at least
\* DEFAULT_REQUEST_DELAY after that request completed (the time that had
\* passed plus the time slept, in half seconds); every call increments the
\* request counter by exactly one.
C18_PacedApart ==
    lastOp = "apply_request_delay" =>
        /\ request_count = pre.request_count + 1
        /\ last_request_set
        /\ pre.last_request_set =>
               Arg("idle") + Arg("slept") >= 2 * DEFAULT_REQUEST_DELAY

\* a second call right after the first completed: it has to sleep
C18_Witness ==
    /\ lastOp = "apply_request_delay"
    /\ repeated
    /\ pre.last_request_set
    /\ pre.request_count = 1
    /\ Arg("idle") = 0
    /\ Arg("slept") >= 2 * DEFAULT_REQUEST_DELAY

\* the loop of _scrape_job_pages is about to fetch a page after the first
\* for the first time
NextFetchDue ==
    /\ lastOp = "search"
    /\ pc = "loop"
    /\ current_page > 1
    /\ current_page <= req.max_pages
    /\ consecutive_empty_pages < max_empty_pages
    /\ "empty_source" \notin LastEvents

\* C19 (as stated): between the fetches of two consecutive pages
\* apply_request_delay is called, whether or not the earlier page yielded
\* records: the step before the fetch of a later page is the page delay.
C19_DelayBetweenFetches == NextFetchDue => "page_delay" \in LastEvents

\* C20: wait_for_element_with_retry raises nothing; it returns the element
\* only when is_displayed() raised nothing in the final lookup; it looks up
\* again only after a stale element, at most max_retries + 1 times in all,
\* and returns None when every lookup was stale; a timeout ends the call
\* with None at once.
C20_StaleRetryBound ==
    lastOp = "wait_for_element_with_retry" =>
        LET max_retries == last[1].arg
            lookups == Tail(last)
            n == Len(lookups)
        IN  /\ ret \in {"element", "absent"}
            /\ n >= 1 /\ n <= max_retries + 1
            /\ \A i \in 1..n : lookups[i].arg = i - 1
            /\ \A i \in 1..(n - 1) : lookups[i].ev = "stale"
            /\ ret = "element" <=> lookups[n].ev = "live"
            /\ lookups[n].ev = "stale" => (n = max_retries + 1 /\ ret = "absent")
            /\ lookups[n].ev = "timeout" => ret = "absent"

\* every lookup of a call with max_retries >= 1 found a stale element
C20_Witness ==
    /\ lastOp = "wait_for_element_with_retry"
    /\ last[1] = Ev("max_retries", MaxRetryArg)
    /\ MaxRetryArg >= 1
    /\ Len(last) = MaxRetryArg + 2
    /\ last[Len(last)].ev = "stale"
    /\ ret = "absent"

\* C21: on a page source that is not empty is_blocked_or_captcha returns
\* True exactly when the page source, in whatever letter case, carries one
\* of the eight indicators; so it does for "Access Denied" in any letter case.
C21_BlockedIffIndicator ==
    (input.fn = "is_blocked_or_captcha" /\ output.returned) =>
        /\ input.page_source # <<>>
        /\ output.value <=>
               input.phrase \in {"captcha", "blocked", "rate limit", "too many requests",
                                 "access denied", "forbidden", "security check",
                                 "unusual activity"}
        /\ input.phrase = "access denied" => output.value

\* "Access Denied" inside a page source
C21_Witness ==
    /\ input.fn = "is_blocked_or_captcha"
    /\ input.phrase = "access denied"
    /\ input.casing = "title"
    /\ IsSubstring(<<"A", "c", "c", "e", "s", "s", " ", "D", "e", "n", "i", "e", "d">>,
                   input.page_source)
    /\ output.returned
    /\ output.value

\* text without its whitespace
Unspaced(s) == SelectSeq(s, LAMBDA x : ~IsSpace(x))

\* text without its whitespace and without the phrases the title extraction
\* removes
Wording(s) == SelectSeq(Unspaced(s), LAMBDA x : x \notin {"View job details for ", " job"})

\* a record has a title and an organization, free of surrounding whitespace
\* and made of the text of the node
Titled(job, card) ==
    /\ job.title # <<>> /\ Strip(job.title) = job.title
    /\ job.company # <<>> /\ Strip(job.company) = job.company
    /\ Unspaced(job.title) = Wording(card.title)
    /\ Unspaced(job.company) = Unspaced(card.company)

\* C22: _extract_job_data returns a record only with a title and an
\* organization that are not empty after cleaning, and returns None for a
\* node that lacks either; it never fills in a text the node does not carry.
\* So every record of a page parse has a title and an organization.
C22_TitleAndOrganization ==
    /\ (input.fn = "_extract_job_data" /\ output.returned) =>
           IF Wording(input.card.title) = <<>> \/ Unspaced(input.card.company) = <<>>
           THEN output.value = NoJob
           ELSE output.value # NoJob /\ Titled(output.value, input.card)
    /\ (input.fn = "parse_job_listings" /\ output.returned) =>
           \A i \in 1..Len(output.value) :
               \E k \in 1..Len(input.cards) : Titled(output.value[i], input.cards[k])

\* a node whose title is nothing but a removed suffix yields no record
C22_Witness ==
    /\ input.fn = "_extract_job_data"
    /\ input.card.title = <<" job">>
    /\ Unspaced(input.card.company) # <<>>
    /\ output.returned
    /\ output.value = NoJob

\* the nodes of a page that yield a record: extraction raises nothing and
\* finds a title and an organization
Yielding(cards, faults) ==
    {k \in 1..Len(cards) : /\ k \notin faults
                           /\ Wording(cards[k].title) # <<>>
                           /\ Unspaced(cards[k].company) # <<>>}

\* C23: a node whose extraction fails, by a missing field or by an exception,
\* costs only its own record: parse_job_listings returns the records of all
\* other nodes, one each, in the order of the nodes.
C23_OnlyFailedNodeDropped ==
    (input.fn = "parse_job_listings" /\ output.returned) =>
        LET yielding == Yielding(input.cards, input.faults)
            \* the node behind the i-th record
            node(i) == CHOOSE k \in yielding :
                          Cardinality({j \in yielding : j < k}) = i - 1
        IN  /\ Len(output.value) = Cardinality(yielding)
            /\ \A i \in 1..Len(output.value) :
                   output.value[i] = _extract_job_data(input.cards[node(i)])

\* the first node raises, the second lacks a title, the third yields a record
C23_Witness ==
    /\ input.fn = "parse_job_listings"
    /\ Len(input.cards) = 3
    /\ input.faults = {1}
    /\ input.cards[1] = CardA
    /\ input.cards[2] = CardJ
    /\ input.cards[3] = CardK
    /\ output.returned
    /\ Len(output.value) = 1
    /\ output.value[1].id = <<"3">>

\* a listing node carries neither an entity urn with "job:" nor a link to
\* a detail page
NoUrnNoLink(card) ==
    ~Contains(card.urn, "job:") /\ ~Contains(card.href, "/jobs/view/")

\* C24 (as stated): the id of a record is what follows "job:" in the entity
\* urn if the node has one, else the id segment of the link to the detail
\* page, else the hash of title, organization and location modulo
\* FALLBACK_ID_MODULUS: a node with neither urn nor link gets that hash.
C24_IdDerivationOrder ==
    (input.fn = "_extract_job_data" /\ output.returned /\ output.value # NoJob) =>
        LET card == input.card
            job == output.value
        IN  IF Contains(card.urn, "job:") /\ AfterLast(card.urn, "job:") # <<>>
            THEN job.id = AfterLast(card.urn, "job:")
            ELSE IF NoUrnNoLink(card)
            THEN job.id = _generate_fallback_id(job)
            ELSE LET segment == BeforeFirst(AfterLast(card.href, "/jobs/view/"), "?")
                 IN  (~Contains(card.urn, "job:") /\ segment # <<>>) => job.id = segment

\* what the posted date of the text in input is to be, other being the
\* result for a text of no listed form
PostedDate(other) ==
    LET T == input.now
        word == StripStr(LowerStr(input.date_text))
    IN  CASE input.unit \in {"day", "days"} -> Strftime(MinusDays(T, input.n))
          [] input.unit \in {"week", "weeks"} -> Strftime(MinusDays(T, 7 * input.n))
          [] input.unit \in {"month", "months"} -> <<"1", "+", " ", "m", "o", "n", "t", "h", "s", " ", "a", "g", "o">>
          [] input.form = "other" /\ word = <<"t", "o", "d", "a", "y">> -> Strftime(T)
          [] input.form = "other" /\ word = <<"y", "e", "s", "t", "e", "r", "d", "a", "y">> -> Strftime(MinusDays(T, 1))
          [] OTHER -> other

Qualifies(element) ==
    /\ element.tag \in {"div", "li", "article"}
    /\ element.class_match
    /\ element.link
    /\ element.heading \/ element.time_text

NoSelectorMatches(soup) == \A i \in 1..Len(soup) : soup[i].matches = {}

\* C26: when no selector matches an element of the document, the elements
\* returned are elements of the document that qualify, in document order,
\* at most 20, and a qualifying element is left out only when 20 qualifying
\* elements before it are returned.
C26_FirstTwentyQualifying ==
    (input.fn = "_find_job_cards" /\ output.returned /\ NoSelectorMatches(input.soup)) =>
        LET cards == output.value
        IN  /\ Len(cards) <= 20
            /\ \A i \in 1..Len(cards) :
                   /\ cards[i].pos \in 1..Len(input.soup)
                   /\ cards[i] = input.soup[cards[i].pos]
                   /\ Qualifies(cards[i])
            /\ \A i, j \in 1..Len(cards) : i < j => cards[i].pos < cards[j].pos
            /\ \A k \in 1..Len(input.soup) :
                   (Qualifies(input.soup[k]) /\ \A i \in 1..Len(cards) : cards[i].pos # k)
                       => Len(cards) = 20 /\ cards[20].pos < k

\* more than 20 elements qualify, with elements that do not among them, and
\* 20 are returned
C26_Witness ==
    /\ input.fn = "_find_job_cards"
    /\ NoSelectorMatches(input.soup)
    /\ Cardinality({k \in 1..Len(input.soup) : Qualifies(input.soup[k])}) > 20
    /\ ~Qualifies(input.soup[1])
    /\ output.returned
    /\ Len(output.value) = 20
    /\ output.value[20].pos = 22

\* the signals named name among those worker w emitted
Emitted(w, name) == SelectSeq(workers[w].emitted, LAMBDA s : s.signal = name)

\* the place of the first signal named name among those worker w emitted
FirstEmitted(w, name) ==
    CHOOSE i \in 1..Len(workers[w].emitted) :
        /\ workers[w].emitted[i].signal = name
        /\ \A j \in 1..(i - 1) : workers[w].emitted[j].signal # name

Ended(w) == workers[w].pc = "ended"

Handled(w) == \E i \in 1..Len(ui.handled) : ui.handled[i] = w

\* C28: every worker started comes to its end having emitted
\* scraping_finished exactly once, whatever the search returned or raised;
\* it never emits it twice, and is past its try block only after emitting
\* it; the slot called for the signal leaves the search button enabled.
C28_EveryRunCompletes ==
    /\ [](\A w \in 1..Len(workers) :
              /\ Len(Emitted(w, "scraping_finished")) <= 1
              /\ workers[w].pc \in {"finally", "ended"} => Len(Emitted(w, "scraping_finished")) = 1)
    /\ [][Len(ui'.handled) > Len(ui.handled) => ui'.search_button]_vars
    /\ \A w \in 1..MaxRuns :
           [](Len(workers) >= w =>
                  <>(Len(workers) >= w /\ Ended(w) /\ Handled(w)))

\* a worker whose run found nothing or raised has ended, its one
\* scraping_finished(False) is handled and the search button is enabled
C28_Witness ==
    \E w \in 1..Len(workers) :
        /\ Ended(w)
        /\ Len(workers[w].emitted) = 1
        /\ workers[w].emitted[1].signal = "scraping_finished"
        /\ ~workers[w].emitted[1].arg.success
        /\ Handled(w)
        /\ ui.search_button

\* the workers started whose scraping_finished has not reached its slot
InFlight == {w \in 1..Len(workers) : ~Handled(w)}

\* C29: at most one worker is between its start and the call of the slot
\* for its scraping_finished; while there is one the search button is
\* disabled, and there is none while the slot is in its message box.
C29_OneWorkerAtATime ==
    /\ Cardinality(InFlight) <= 1
    /\ InFlight # {} => ~ui.search_button
    /\ ui.boxes > 0 => InFlight = {}

\* a second worker is running, started after the first was handled and
\* while the thread of the first was still in its finally clause
C29_Witness ==
    /\ Len(workers) = 2
    /\ Handled(1)
    /\ workers[1].pc = "finally"
    /\ InFlight = {2}
    /\ workers[2].pc = "search"
    /\ ~ui.search_button

\* search_jobs has been entered on a scraper whose search_jobs had returned
Again == earlier.searches >= 1 /\ lastOp = "search"

\* C30: in a call of search_jobs on a scraper used before, scraped_jobs is
\* empty from the entry until the call returns and holds what the call
\* returned or nothing after; the records returned are what the pages
\* parsed in this call accumulate to from nothing, so each was parsed in
\* this call and none is dropped for a record of an earlier call.
C30_OnlyThisSearch ==
    Again =>
        /\ pc # "done" => scraped_jobs = <<>>
        /\ pc = "done" =>
               /\ scraped_jobs \in {<<>>, result}
               /\ result = Accumulated(parsed, <<>>)
               /\ \A i \in 1..Len(result) :
                      \E k \in 1..Len(parsed) : \E j \in 1..Len(parsed[k]) :
                          parsed[k][j] = result[i]

\* the later call has returned a record that the earlier call returned too
C30_Witness ==
    /\ Again
    /\ pc = "done"
    /\ \E i \in 1..Len(result) : result[i] \in earlier.jobs
    /\ scraped_jobs = result

\* C31 (as stated): every record of the store has one of the four statuses.
C31_StatusAmongOptions ==
    \A job_id \in DOMAIN store.jobs_data :
        store.jobs_data[job_id].status \in status_options

\* C32 (as stated): a record of the store whose status has not changed
\* since it was added has no status_updated_at.
C32_TimestampOnlyAfterChange ==
    \A job_id \in DOMAIN store.jobs_data :
        ~store.jobs_data[job_id].changed => ~store.jobs_data[job_id].has_status_updated_at

\* C40 (as stated): the id add_job generates for a mapping without id was
\* no key of the store.
C40_GeneratedIdIsNew ==
    (store.call.op = "add_job" /\ store.call.generated) => ~store.call.existed

\* the events of what the function applied on its own returned
Did(name) == \E i \in 1..Len(output.value.evs) : output.value.evs[i].ev = name

\* C33 (as stated): for a request with a title, a location or both, once
\* the inputs asked for are filled the search is submitted: by a click on
\* the submit button if one is found, by a carriage return on the title
\* input if none is.
C33_AlwaysSubmitted ==
    (/\ input.fn = "_input_search_parameters"
     /\ output.returned
     /\ input.r.job_title \/ input.r.location
     /\ input.r.job_title => input.f.title_input
     /\ input.r.location => input.f.location_input)
        => IF input.f.search_button THEN Did("click_submit") ELSE Did("press_return")

\* C34 (as stated): when a next button is located and its click raises the
\* click-intercepted error, the script-driven click is made on it, and if
\* that click goes through the address is compared and decides the result.
C34_InterceptedClickFallsBack ==
    (/\ input.fn = "_navigate_to_next_page"
     /\ output.returned
     /\ \E i \in 1..Len(input.f.elements) : input.f.elements[i] = "usable"
     /\ input.f.click = "ElementClickInterceptedException")
        => /\ Did("script_click") \/ Did("script_click_raised")
           /\ input.f.script_click = "ok" =>
                  Did("compare_url") /\ output.value.ok = input.f.url_changed

\* the events of the step say that in the call of _navigate_to_next_page a
\* next button was located and clicked and the address was found changed
NavigatedIn(evs) == \E i \in 1..Len(evs) : evs[i] = Ev("navigated", 1)

\* C35: the page counter goes on to a page to fetch only in a step in which
\* _navigate_to_next_page located a next button, clicked it and found the
\* address changed, and a page after the first is fetched only after as
\* many navigations; a call of _navigate_to_next_page in which one of these
\* failed reports failure, and then search_jobs has returned, without an
\* error, the records accumulated.
C35_NextPageOnlyAfterNavigation ==
    /\ [][(current_page' = current_page + 1 /\ current_page' <= req.max_pages)
              => EventsNamed(last', "next_ok") # {} /\ NavigatedIn(last')]_vars
    /\ [][navs' = navs + 1
              => /\ NavigatedIn(last') <=> EventsNamed(last', "next_ok") # {}
                 /\ ~NavigatedIn(last') <=> EventsNamed(last', "next_fail") # {}]_vars
    /\ [](\A i \in 1..Len(last) : last[i].ev = "fetch" => navs >= last[i].arg - 1)
    /\ [](EventsNamed(last, "next_fail") # {}
              => /\ pc = "done" /\ lastOp = "search"
                 /\ result = all_jobs
                 /\ result = Accumulated(parsed, <<>>))

\* the loop is on its way to the second page after a navigation that
\* clicked the next button and found the address changed
C35_Witness ==
    /\ pc = "delay"
    /\ current_page = 2
    /\ EventsNamed(last, "next_ok") # {}
    /\ NavigatedIn(last)
    /\ all_jobs # <<>>

\* a step of the loop of _scrape_job_pages that parsed a page
ParsedAPage == parsed' # parsed /\ Len(parsed') = Len(parsed) + 1

\* C39 (as stated): the counter of consecutive empty pages goes up only in
\* a step in which a page was parsed and yielded no record.
C39_CountsOnlyEmptyParses ==
    [][consecutive_empty_pages' > consecutive_empty_pages
           => ParsedAPage /\ parsed'[Len(parsed')] = <<>>]_vars

\* C39 (amended): the counter of consecutive empty pages goes up, by one,
\* only in an iteration whose page source could not be got or whose parse
\* yielded no record; the parse of a page that yields records sets it to
\* zero, also when all of them are duplicates and nothing is added to the
\* result, and then the loop goes on to the next-page navigation or, on the
\* last page, to its end.
C39_DuplicatesResetCounter ==
    /\ [][consecutive_empty_pages' > consecutive_empty_pages
              => /\ consecutive_empty_pages' = consecutive_empty_pages + 1
                 /\ \/ ParsedAPage /\ parsed'[Len(parsed')] = <<>>
                    \/ parsed' = parsed /\ "empty_source" \in {last'[i].ev : i \in 1..Len(last')}]_vars
    /\ [][(ParsedAPage /\ parsed'[Len(parsed')] # <<>>)
              => /\ consecutive_empty_pages' = 0
                 /\ pc' = IF current_page < req.max_pages THEN "next" ELSE "delay"]_vars
    /\ [](\A i \in 1..Len(last) : (last[i].ev = "parse" /\ last[i].arg > 0)
              => consecutive_empty_pages = 0)

\* the third page parsed repeats the records of the first, after a second
\* page without records: nothing is added and the counter is back at zero
C39_Witness ==
    /\ Len(parsed) = 3
    /\ parsed[1] # <<>> /\ parsed[2] = <<>> /\ parsed[3] # <<>>
    /\ all_jobs = Accumulated(<<parsed[1]>>, <<>>)
    /\ consecutive_empty_pages = 0
    /\ \E i \in 1..Len(last) : last[i].ev = "parse" /\ last[i].arg > 0

\* C38 (as stated): a record parsed from the second page with an empty url
\* and an id that no record before it in the run has is among the records
\* kept, whether or not a record kept earlier has an empty url too.
C38_UrlLessRecordsKept ==
    (input.fn = "new_jobs" /\ output.returned) =>
        LET page_jobs == ExtractAll(input.second)
            kept == output.value.all_jobs \o output.value.new_jobs
        IN  \A i \in 1..Len(page_jobs) :
                (/\ page_jobs[i].url = <<>>
                 /\ page_jobs[i].id \notin Ids(output.value.all_jobs)
                 /\ \A k \in 1..(i - 1) : page_jobs[k].id # page_jobs[i].id)
                    => \E k \in 1..Len(kept) : kept[k] = page_jobs[i]

\* worker w emits a signal in the step
Emits(w) == Len(workers'[w].emitted) > Len(workers[w].emitted)

\* C36: a worker emits jobs_found or scraping_finished only when the
\* controller of its scraper holds no browser handle, the session opened by
\* search_jobs having been torn down before search_jobs ended; so a worker
\* is started, and a browser is held by a worker, only while no other
\* worker holds one.
C36_TeardownBeforeSignals ==
    /\ [][\A w \in 1..Len(workers) :
              Emits(w) => workers[w].sess.driver = None /\ workers'[w].sess.driver = None]_vars
    /\ [](\A w \in 1..Len(workers) :
              workers[w].emitted # <<>> => workers[w].sess.driver = None)
    /\ [][Len(workers') > Len(workers)
              => \A w \in 1..Len(workers) : workers[w].sess.driver = None]_vars
    /\ [](\A w, v \in 1..Len(workers) :
              (workers[w].sess.driver # None /\ workers[v].sess.driver # None) => w = v)

\* the second worker holds a browser while the thread of the first, which
\* had one and found records, is still in its finally clause
C36_Witness ==
    /\ Len(workers) = 2
    /\ workers[1].pc = "finally"
    /\ workers[1].jobs # <<>>
    /\ Len(Emitted(1, "jobs_found")) = 1
    /\ workers[1].sess.driver = None
    /\ workers[2].pc = "searching"
    /\ workers[2].sess.driver = Browser

\* the scraping_finished signals of worker w
Finished(w) == {Emitted(w, "scraping_finished")[i].arg :
                    i \in 1..Len(Emitted(w, "scraping_finished"))}

\* search_jobs returned to worker w
SearchReturned(w) == workers[w].ended \in {"pages_done", "aborted"}

\* C37 (as stated): scraping_finished reports success exactly when
\* search_jobs returned at least one record, and a run whose search was
\* aborted reports no success, with the message of a search without records.
C37_AbortedReportsNoJobs ==
    \A w \in 1..Len(workers) : \A arg \in Finished(w) :
        /\ arg.success <=> (SearchReturned(w) /\ workers[w].jobs # <<>>)
        /\ workers[w].ended = "aborted" =>
               ~arg.success /\ arg.message = "No jobs found"

\* C37 (amended): scraping_finished reports success exactly when
\* search_jobs returned at least one record, also when the search was
\* aborted after records had been accumulated; a search that returned no
\* record is reported without success and with the same message whether it
\* was aborted or came to the end of the pages.
C37_SuccessIffRecords ==
    \A w \in 1..Len(workers) : \A arg \in Finished(w) :
        /\ arg.success <=> (SearchReturned(w) /\ workers[w].jobs # <<>>)
        /\ arg.success => arg.message = "Successfully found" /\ arg.found = Len(workers[w].jobs)
        /\ (SearchReturned(w) /\ workers[w].jobs = <<>>) =>
               ~arg.success /\ arg.message = "No jobs found"
        /\ ~SearchReturned(w) => ~arg.success /\ arg.message = "Scraping failed"

\* a search aborted after a record had been accumulated is reported as a
\* success
C37_Witness ==
    \E w \in 1..Len(workers) :
        /\ workers[w].ended = "aborted"
        /\ workers[w].jobs # <<>>
        /\ \E arg \in Finished(w) : arg.success

====
